---------------------------- MODULE Spec2Model ----------------------------
(***************************************************************************)
(* State-machine model of the newglode game server (src/server, src/shared *)
(* and the content catalog of src/admin/config.py).                        *)
(*                                                                         *)
(* Conventions                                                             *)
(*  - Fractions (conveyor progress, inserter animation progress, speeds)   *)
(*    are kept in hundredths: 0.02 is 2, 0.99 is 99, 1.0 is 100.           *)
(*  - Python None is the string "none" (recipe) or the record NoItem       *)
(*    (held_item) or the record NoSlot (inventory slot).                   *)
(*  - An entity's `data` dict is a record with every key the server reads, *)
(*    holding the default of the matching data.get(key, default).          *)
(*  - world.entities (the id -> entity index) holds the objects made by    *)
(*    create_entity. A chunk's entity dict holds, per id, either that very *)
(*    object (an alias) or an object of its own made by Chunk.from_dict    *)
(*    (kept in the chunk's `copies`).                                      *)
(***************************************************************************)
EXTENDS Integers, Sequences, FiniteSets, TLC

VARIABLES
    config,           \* GameConfig singleton (admin/config.py), fixed after start
    tick,             \* World.tick
    next_entity_id,   \* World.next_entity_id
    entities,         \* World.entities : id -> entity object
    chunks,           \* World.chunks   : <<cx, cy>> -> chunk
    chunk_order,      \* insertion order of the keys of World.chunks
    players,          \* World.players  : client id -> player
    clients,          \* GameServer.clients : client id -> ClientConnection; conn is
                      \* the bytes its socket holds for recv, buffer its buffer
    next_client_id,   \* GameServer.next_client_id
    dirty_entities,   \* Simulation.dirty_entities
    db_chunks,        \* table chunks of saves/world.db
    db_meta,          \* table world_meta
    db_players,       \* table players
    sent,             \* messages handed to conn.send by the last step, in order
    last,             \* what the last step was and what it returned
    sim,              \* the simulation thread inside Simulation.tick (SpecThreads)
    twin,             \* a second run of the server, given the same actions (SpecTwin)
    locks             \* the session lock, the world lock and where the threads are (SpecLocks)

vars == <<config, tick, next_entity_id, entities, chunks, chunk_order, players,
          clients, next_client_id, dirty_entities, db_chunks, db_meta,
          db_players, sent, last, sim, twin, locks>>

-----------------------------------------------------------------------------
(* Program constants *)

\* No second run.
NoTwin == <<>>

\* threading.RLock(): nobody holds it.
Unlocked == [owner |-> "none", depth |-> 0]

\* Both locks free, the three threads at the head of their loops.
NoLocks ==
    [session |-> Unlocked, world |-> Unlocked,
     pc |-> [accept |-> "accept", net |-> "sleep", sim |-> "sleep"],
     msgs |-> 0]

CHUNK_SIZE == 32
PLAYER_VIEW_DISTANCE == 3
MAX_SLOTS == 40
MAX_STACK == 100
TRANSFER_CHEST_MAX == 50
TRANSFER_INPUT_MAX == 10
\* Twice the radius of InventoryManager.pickup_from_ground (1.5).
PICKUP_RADIUS_X2 == 3
CLAMP_PROGRESS == 99
EXTRACT_PROGRESS == 90
FULL_PROGRESS == 100

(* Bounds of the model *)

MaxClients == 1
MaxEntityId == 2
MaxTick == 2

-----------------------------------------------------------------------------
(* shared/entities.py *)

EntityType == {"CONVEYOR", "MINER", "FURNACE", "ASSEMBLER", "CHEST", "INSERTER"}
Direction == {"NORTH", "EAST", "SOUTH", "WEST"}

NoItem == [item |-> "none", progress |-> 0]
NoSlot == [item |-> "none", count |-> 0]

EmptyData == [items |-> <<>>, input |-> <<>>, output |-> <<>>, cooldown |-> 0,
              held_item |-> NoItem, progress |-> 0, recipe |-> "none"]

Entity(id, entity_type, x, y, direction) ==
    [id |-> id, entity_type |-> entity_type, x |-> x, y |-> y,
     direction |-> direction, data |-> EmptyData]

Item(name) == [item |-> name, progress |-> 0]

-----------------------------------------------------------------------------
(* admin/config.py : the content catalog *)

EntityConfig(buffer_size, input_buffer_size, output_buffer_size, cooldown, speed, animation_speed) ==
    [buffer_size |-> buffer_size, input_buffer_size |-> input_buffer_size,
     output_buffer_size |-> output_buffer_size, cooldown |-> cooldown,
     speed |-> speed, animation_speed |-> animation_speed]

TileResource ==
    [VOID |-> "none", GRASS |-> "none", DIRT |-> "none", STONE |-> "none",
     WATER |-> "none", IRON_ORE |-> "iron_ore", COPPER_ORE |-> "copper_ore",
     COAL |-> "coal"]

PlacementRules ==
    [MINER     |-> [allowed_tiles |-> {"IRON_ORE", "COPPER_ORE", "COAL"},
                    forbidden_tiles |-> {}],
     FURNACE   |-> [allowed_tiles |-> {"GRASS", "DIRT", "STONE"},
                    forbidden_tiles |-> {"WATER"}],
     ASSEMBLER |-> [allowed_tiles |-> {"GRASS", "DIRT", "STONE"},
                    forbidden_tiles |-> {"WATER"}],
     CONVEYOR  |-> [allowed_tiles |-> {}, forbidden_tiles |-> {"WATER", "VOID"}],
     CHEST     |-> [allowed_tiles |-> {}, forbidden_tiles |-> {"WATER", "VOID"}],
     INSERTER  |-> [allowed_tiles |-> {}, forbidden_tiles |-> {"WATER", "VOID"}]]

\* The three default furnace recipes; `time` is a parameter of the catalog.
FurnaceRecipes(time) ==
    [iron_ore   |-> [output |-> "iron_plate", count |-> 1, time |-> time],
     copper_ore |-> [output |-> "copper_plate", count |-> 1, time |-> time],
     coal       |-> [output |-> "carbon", count |-> 1, time |-> time]]

\* Two of the default assembler recipes (copper_wire yields 2 per craft).
AssemblerRecipes(time) ==
    [iron_gear   |-> [ingredients |-> [iron_plate |-> 2], result |-> "iron_gear",
                      count |-> 1, time |-> time],
     copper_wire |-> [ingredients |-> [copper_plate |-> 1], result |-> "copper_wire",
                      count |-> 2, time |-> time]]

\* GameConfig.load_defaults
DefaultCatalog ==
    [entities_by_name |->
        [CONVEYOR  |-> EntityConfig(3, 0, 0, 0, 2, 0),
         MINER     |-> EntityConfig(10, 0, 0, 60, 0, 0),
         FURNACE   |-> EntityConfig(0, 10, 10, 120, 0, 0),
         ASSEMBLER |-> EntityConfig(0, 10, 10, 0, 0, 0),
         CHEST     |-> EntityConfig(50, 0, 0, 0, 0, 0),
         INSERTER  |-> EntityConfig(0, 0, 0, 20, 0, 5)],
     furnace_recipes |-> FurnaceRecipes(120),
     assembler_recipes |-> AssemblerRecipes(60),
     placement_rules |-> PlacementRules,
     tile_resource |-> TileResource,
     chunk_rows |-> {0},
     hashseed |-> 0]

\* GameConfig.load_from_mongodb with a catalog edited by the admin tool:
\* the default kinds, recipes and rules with small capacities and short
\* times, and one more assembler recipe, which turns an ore into two dusts.
SmallCatalog ==
    [entities_by_name |->
        [CONVEYOR  |-> EntityConfig(2, 0, 0, 0, 50, 0),
         MINER     |-> EntityConfig(2, 0, 0, 1, 0, 0),
         FURNACE   |-> EntityConfig(0, 2, 2, 1, 0, 0),
         ASSEMBLER |-> EntityConfig(0, 2, 3, 0, 0, 0),
         CHEST     |-> EntityConfig(2, 0, 0, 0, 0, 0),
         INSERTER  |-> EntityConfig(0, 0, 0, 1, 0, 50)],
     furnace_recipes |-> FurnaceRecipes(1),
     assembler_recipes |->
        [r \in DOMAIN AssemblerRecipes(1) \cup {"copper_dust"} |->
            IF r = "copper_dust"
            THEN [ingredients |-> [copper_ore |-> 1], result |-> "copper_dust",
                  count |-> 2, time |-> 1]
            ELSE AssemblerRecipes(1)[r]],
     placement_rules |-> PlacementRules,
     tile_resource |-> TileResource,
     chunk_rows |-> {0},
     hashseed |-> 0]

\* A can_place_entity that does not read the forbidden tiles.
can_place_entity_unforbidden(entity_name, tile_name) ==
    LET rule == config.placement_rules[entity_name] IN
    IF entity_name \notin DOMAIN config.placement_rules THEN TRUE
    ELSE IF rule.allowed_tiles = {} THEN TRUE
    ELSE tile_name \in rule.allowed_tiles

\* GameConfig.can_place_entity
can_place_entity(entity_name, tile_name) ==
    LET rule == config.placement_rules[entity_name] IN
    IF entity_name \notin DOMAIN config.placement_rules THEN TRUE
    ELSE IF tile_name \in rule.forbidden_tiles THEN FALSE
    ELSE IF rule.allowed_tiles = {} THEN TRUE
    ELSE tile_name \in rule.allowed_tiles

\* GameConfig.get_resource_for_tile
get_resource_for_tile(tile_name) ==
    IF tile_name \in DOMAIN config.tile_resource
    THEN config.tile_resource[tile_name] ELSE "none"

-----------------------------------------------------------------------------
(* server/world_generator.py, server/chunk.py : tiles *)

\* The tiles the model tells apart, in world coordinates.
ModelTiles == {<<0, 0>>, <<1, 0>>, <<2, 0>>, <<3, 0>>, <<32, 0>>, <<-1, 0>>}

\* ResourcePatchGenerator._generate_patches_for_region seeds the generator of
\* a region's patches with hash((seed, region_x, region_y, "patches")). The
\* hash of a tuple that holds a str depends on the string-hash seed of the
\* process (config.hashseed), which Python draws at start unless
\* PYTHONHASHSEED is set. In the model that seed decides on which tile of
\* row 0 the ore patch of the origin's region lies.
patch_tile(hashseed) == <<hashseed, 0>>

\* WorldGenerator.get_tile_at for the world seed: water at (3, 0), where
\* get_resource_at gives no resource; the ore of the patch; grass elsewhere.
generate_tile(x, y) ==
    IF <<x, y>> = <<3, 0>> THEN "WATER"
    ELSE IF <<x, y>> = patch_tile(config.hashseed) THEN "COPPER_ORE"
    ELSE "GRASS"

\* World.world_to_chunk: (chunk_x, chunk_y), floored division.
world_to_chunk(x, y) == <<x \div CHUNK_SIZE, y \div CHUNK_SIZE>>

\* WorldGenerator.generate_chunk_tiles: the tile matrix of chunk (cx, cy),
\* restricted to ModelTiles and indexed by world coordinate.
generate_chunk_tiles(cx, cy) ==
    [t \in {u \in ModelTiles : world_to_chunk(u[1], u[2]) = <<cx, cy>>} |->
        generate_tile(t[1], t[2])]

\* Chunk(cx, cy) followed by Chunk.generate: dirty is set.
NewChunk(cx, cy) ==
    [cx |-> cx, cy |-> cy, ids |-> <<>>, copies |-> <<>>, dirty |-> TRUE,
     tiles |-> generate_chunk_tiles(cx, cy)]

\* Chunk.get_tile on the stored matrix.
chunk_get_tile(chunk, x, y) ==
    IF <<x, y>> \in DOMAIN chunk.tiles THEN chunk.tiles[<<x, y>>] ELSE "GRASS"

-----------------------------------------------------------------------------
(* server/world.py on a world record                                       *)
(*   w = [entities, chunks, chunk_order, next_entity_id, dirty_entities]   *)

SeqToSet(s) == {s[i] : i \in 1..Len(s)}

RECURSIVE SeqRemove(_, _)
SeqRemove(s, v) ==
    IF s = <<>> THEN <<>>
    ELSE IF Head(s) = v THEN SeqRemove(Tail(s), v)
    ELSE <<Head(s)>> \o SeqRemove(Tail(s), v)

\* d[k] = v on a dict modelled as a function.
DictPut(d, k, v) == [x \in DOMAIN d \cup {k} |-> IF x = k THEN v ELSE d[x]]
\* d.pop(k, None)
DictPop(d, k) == [x \in DOMAIN d \ {k} |-> d[x]]

\* World.get_chunk: the chunk in memory, or a generated one put in the table.
get_chunk(w, cx, cy) ==
    IF <<cx, cy>> \in DOMAIN w.chunks THEN w
    ELSE [w EXCEPT !.chunks = DictPut(w.chunks, <<cx, cy>>, NewChunk(cx, cy)),
                   !.chunk_order = Append(w.chunk_order, <<cx, cy>>)]

\* World.get_tile
get_tile(w, x, y) ==
    LET k == world_to_chunk(x, y) IN
    chunk_get_tile(get_chunk(w, k[1], k[2]).chunks[k], x, y)

\* World.get_entity_at: the id of the first entity of the index on tile
\* (x, y), 0 for None. The index is filled in id order.
get_entity_at(w, x, y) ==
    LET at == {i \in DOMAIN w.entities : w.entities[i].x = x /\ w.entities[i].y = y} IN
    IF at = {} THEN 0 ELSE CHOOSE i \in at : \A j \in at : i <= j

\* Chunk.add_entity of the object just put in the index (an alias).
chunk_add_entity(chunk, id) ==
    [chunk EXCEPT !.ids = IF id \in SeqToSet(chunk.ids) THEN chunk.ids
                          ELSE Append(chunk.ids, id),
                  !.copies = DictPop(chunk.copies, id),
                  !.dirty = TRUE]

\* Chunk.remove_entity
chunk_remove_entity(chunk, id) ==
    IF id \in SeqToSet(chunk.ids)
    THEN [chunk EXCEPT !.ids = SeqRemove(chunk.ids, id),
                       !.copies = DictPop(chunk.copies, id),
                       !.dirty = TRUE]
    ELSE chunk

\* World.create_entity
create_entity(w, entity_type, x, y, direction) ==
    LET id == w.next_entity_id
        k  == world_to_chunk(x, y)
        w1 == get_chunk(w, k[1], k[2])
    IN [w1 EXCEPT !.next_entity_id = id + 1,
                  !.chunks[k] = chunk_add_entity(w1.chunks[k], id),
                  !.entities = DictPut(w1.entities, id,
                                       Entity(id, entity_type, x, y, direction))]

\* A remove_entity that leaves the entity in the index.
remove_entity_from_chunk(w, entity_id) ==
    IF entity_id \notin DOMAIN w.entities THEN w
    ELSE LET e == w.entities[entity_id]
             k == world_to_chunk(e.x, e.y)
         IN [w EXCEPT !.chunks = IF k \in DOMAIN w.chunks
                                 THEN [w.chunks EXCEPT ![k] = chunk_remove_entity(w.chunks[k], entity_id)]
                                 ELSE w.chunks]

\* World.remove_entity
remove_entity(w, entity_id) ==
    IF entity_id \notin DOMAIN w.entities THEN w
    ELSE LET e == w.entities[entity_id]
             k == world_to_chunk(e.x, e.y)
         IN [w EXCEPT !.entities = DictPop(w.entities, entity_id),
                      !.chunks = IF k \in DOMAIN w.chunks
                                 THEN [w.chunks EXCEPT ![k] = chunk_remove_entity(w.chunks[k], entity_id)]
                                 ELSE w.chunks]

\* The area around the chunk found by rounding x / 32 and y / 32 towards zero.
get_chunks_around_truncated(x, y) ==
    LET tr(v) == IF v >= 0 THEN v \div CHUNK_SIZE ELSE -((-v) \div CHUNK_SIZE)
    IN {c \in {<<tr(x) + dx, tr(y) + dy>> :
                  dx \in (-PLAYER_VIEW_DISTANCE)..PLAYER_VIEW_DISTANCE,
                  dy \in (-PLAYER_VIEW_DISTANCE)..PLAYER_VIEW_DISTANCE} :
           c[2] \in config.chunk_rows}

\* World.get_chunks_around, restricted to the rows of chunks the model holds
\* (chunk_rows: only row cy = 0, in which every tile of ModelTiles lies, or
\* every row the positions of the specification can reach).
get_chunks_around(x, y) ==
    LET k == world_to_chunk(x, y) IN
    {c \in {<<k[1] + dx, k[2] + dy>> :
               dx \in (-PLAYER_VIEW_DISTANCE)..PLAYER_VIEW_DISTANCE,
               dy \in (-PLAYER_VIEW_DISTANCE)..PLAYER_VIEW_DISTANCE} :
        c[2] \in config.chunk_rows}

-----------------------------------------------------------------------------
(* Entity objects: a reference names the index object (copy = FALSE) or the *)
(* object a chunk loaded from the database holds for that id (copy = TRUE). *)

IndexRef(id) == [id |-> id, copy |-> FALSE, key |-> <<0, 0>>]
CopyRef(key, id) == [id |-> id, copy |-> TRUE, key |-> key]

\* The object chunk `key` holds for `id`.
ChunkRef(w, key, id) ==
    IF id \in DOMAIN w.chunks[key].copies THEN CopyRef(key, id) ELSE IndexRef(id)

Obj(w, r) == IF r.copy THEN w.chunks[r.key].copies[r.id] ELSE w.entities[r.id]

\* entity.data[...] = ... on the object r names.
SetData(w, r, d) ==
    IF r.copy THEN [w EXCEPT !.chunks[r.key].copies[r.id].data = d]
    ELSE [w EXCEPT !.entities[r.id].data = d]

-----------------------------------------------------------------------------
(* server/simulation.py *)

Cfg(name) == config.entities_by_name[name]

\* Simulation.direction_to_delta
direction_to_delta(direction) ==
    CASE direction = "NORTH" -> <<0, -1>>
      [] direction = "EAST"  -> <<1, 0>>
      [] direction = "SOUTH" -> <<0, 1>>
      [] direction = "WEST"  -> <<-1, 0>>
      [] OTHER -> <<0, 0>>

\* Simulation.mark_dirty
mark_dirty(w, id) == [w EXCEPT !.dirty_entities = @ \cup {id}]

\* The id of the index entity on the tile `sign` steps along e's direction.
Neighbour(w, e, sign) ==
    LET delta == direction_to_delta(e.direction) IN
    get_entity_at(w, e.x + sign * delta[1], e.y + sign * delta[2])

\* The transfer written out in update_conveyor, update_miner, update_furnace
\* and update_assembler: `name` is appended to the buffer of the index entity
\* `target` when that entity is of one of `kinds` and its buffer has room.
push_downstream(w, target, name, kinds) ==
    LET t  == w.entities[target]
        ty == t.entity_type
        d  == t.data
        no == [w |-> w, transferred |-> FALSE]
    IN IF target = 0 THEN no
       ELSE IF ty \notin kinds THEN no
       ELSE IF ty \in {"CONVEYOR", "CHEST"}
       THEN IF Len(d.items) < Cfg(ty).buffer_size
            THEN [w |-> mark_dirty(SetData(w, IndexRef(target),
                                           [d EXCEPT !.items = Append(@, Item(name))]),
                                   target),
                  transferred |-> TRUE]
            ELSE no
       ELSE IF Len(d.input) < Cfg(ty).input_buffer_size
            THEN [w |-> mark_dirty(SetData(w, IndexRef(target),
                                           [d EXCEPT !.input = Append(@, Item(name))]),
                                   target),
                  transferred |-> TRUE]
            ELSE no

RECURSIVE conveyor_items_no_backpressure(_, _, _, _, _)
\* The loop of a conveyor without backpressure: an item that reaches the end
\* leaves the conveyor whether or not the target took it.
conveyor_items_no_backpressure(w, e, items, i, new_items) ==
    IF i > Len(items) THEN [w |-> w, new_items |-> new_items]
    ELSE LET p   == items[i].progress + Cfg("CONVEYOR").speed
             res == push_downstream(w, Neighbour(w, e, 1), items[i].item,
                                    {"CONVEYOR", "CHEST", "FURNACE", "ASSEMBLER"})
         IN IF p >= FULL_PROGRESS
            THEN conveyor_items_no_backpressure(res.w, e, items, i + 1, new_items)
            ELSE conveyor_items_no_backpressure(w, e, items, i + 1,
                     Append(new_items, [items[i] EXCEPT !.progress = p]))

RECURSIVE conveyor_items_strict(_, _, _, _, _)
\* The loop of a conveyor that lets an item go only once its progress has
\* passed the end.
conveyor_items_strict(w, e, items, i, new_items) ==
    IF i > Len(items) THEN [w |-> w, new_items |-> new_items]
    ELSE LET p   == items[i].progress + Cfg("CONVEYOR").speed
             res == push_downstream(w, Neighbour(w, e, 1), items[i].item,
                                    {"CONVEYOR", "CHEST", "FURNACE", "ASSEMBLER"})
         IN IF p > FULL_PROGRESS
            THEN IF res.transferred
                 THEN conveyor_items_strict(res.w, e, items, i + 1, new_items)
                 ELSE conveyor_items_strict(w, e, items, i + 1,
                          Append(new_items, [items[i] EXCEPT !.progress = CLAMP_PROGRESS]))
            ELSE conveyor_items_strict(w, e, items, i + 1,
                     Append(new_items, [items[i] EXCEPT !.progress = p]))

RECURSIVE conveyor_items(_, _, _, _, _)
\* The for loop of update_conveyor from the i-th item on.
conveyor_items(w, e, items, i, new_items) ==
    IF i > Len(items) THEN [w |-> w, new_items |-> new_items]
    ELSE LET p   == items[i].progress + Cfg("CONVEYOR").speed
             res == push_downstream(w, Neighbour(w, e, 1), items[i].item,
                                    {"CONVEYOR", "CHEST", "FURNACE", "ASSEMBLER"})
         IN IF p >= FULL_PROGRESS
            THEN IF res.transferred
                 THEN conveyor_items(res.w, e, items, i + 1, new_items)
                 ELSE conveyor_items(w, e, items, i + 1,
                          Append(new_items, [items[i] EXCEPT !.progress = CLAMP_PROGRESS]))
            ELSE conveyor_items(w, e, items, i + 1,
                     Append(new_items, [items[i] EXCEPT !.progress = p]))

\* Simulation.update_conveyor
update_conveyor(w, r) ==
    LET e   == Obj(w, r)
        res == conveyor_items(w, e, e.data.items, 1, <<>>)
    IN IF e.data.items = <<>> THEN w
       ELSE mark_dirty(SetData(res.w, r, [Obj(res.w, r).data EXCEPT
                                              !.items = res.new_items]), e.id)

\* Simulation.update_miner
update_miner(w, r) ==
    LET e        == Obj(w, r)
        cooldown == e.data.cooldown
        w1       == IF cooldown > 0
                    THEN SetData(w, r, [e.data EXCEPT !.cooldown = cooldown - 1])
                    ELSE w
        output   == e.data.output
        res      == IF output # <<>>
                    THEN push_downstream(w1, Neighbour(w1, e, 1), output[1].item,
                                         {"CONVEYOR", "CHEST", "FURNACE"})
                    ELSE [w |-> w1, transferred |-> FALSE]
        w2       == IF res.transferred
                    THEN mark_dirty(SetData(res.w, r, [Obj(res.w, r).data EXCEPT
                                                !.output = Tail(@)]), e.id)
                    ELSE res.w
        resource == get_resource_for_tile(get_tile(w2, e.x, e.y))
    IN IF cooldown <= 0 /\ resource # "none"
          /\ Len(Obj(w2, r).data.output) < Cfg("MINER").buffer_size
       THEN mark_dirty(SetData(w2, r, [Obj(w2, r).data EXCEPT
                                           !.output = Append(@, Item(resource)),
                                           !.cooldown = Cfg("MINER").cooldown]), e.id)
       ELSE w2

RECURSIVE Copies(_, _)
\* `n` copies of item `name`.
Copies(name, n) == IF n <= 0 THEN <<>> ELSE <<Item(name)>> \o Copies(name, n - 1)

\* A furnace that smelts whenever it has input and room, cooling down or not.
update_furnace_no_cooldown(w, r) ==
    LET e        == Obj(w, r)
        cooldown == e.data.cooldown
        w1       == IF cooldown > 0
                    THEN SetData(w, r, [e.data EXCEPT !.cooldown = cooldown - 1])
                    ELSE w
        output   == e.data.output
        res      == IF output # <<>>
                    THEN push_downstream(w1, Neighbour(w1, e, 1), output[1].item,
                                         {"CONVEYOR", "CHEST"})
                    ELSE [w |-> w1, transferred |-> FALSE]
        w2       == IF res.transferred
                    THEN mark_dirty(SetData(res.w, r, [Obj(res.w, r).data EXCEPT
                                                !.output = Tail(@)]), e.id)
                    ELSE res.w
        d2       == Obj(w2, r).data
        recipe   == config.furnace_recipes[d2.input[1].item]
    IN IF d2.input # <<>>
          /\ Len(d2.output) < Cfg("FURNACE").output_buffer_size
          /\ d2.input[1].item \in DOMAIN config.furnace_recipes
       THEN mark_dirty(SetData(w2, r, [d2 EXCEPT
                                          !.input = Tail(@),
                                          !.output = @ \o Copies(recipe.output, recipe.count),
                                          !.cooldown = recipe.time]), e.id)
       ELSE w2

\* Simulation.update_furnace
update_furnace(w, r) ==
    LET e        == Obj(w, r)
        cooldown == e.data.cooldown
        w1       == IF cooldown > 0
                    THEN SetData(w, r, [e.data EXCEPT !.cooldown = cooldown - 1])
                    ELSE w
        output   == e.data.output
        res      == IF output # <<>>
                    THEN push_downstream(w1, Neighbour(w1, e, 1), output[1].item,
                                         {"CONVEYOR", "CHEST"})
                    ELSE [w |-> w1, transferred |-> FALSE]
        w2       == IF res.transferred
                    THEN mark_dirty(SetData(res.w, r, [Obj(res.w, r).data EXCEPT
                                                !.output = Tail(@)]), e.id)
                    ELSE res.w
        d2       == Obj(w2, r).data
        recipe   == config.furnace_recipes[d2.input[1].item]
    IN IF cooldown <= 0 /\ d2.input # <<>>
          /\ Len(d2.output) < Cfg("FURNACE").output_buffer_size
          /\ d2.input[1].item \in DOMAIN config.furnace_recipes
       THEN mark_dirty(SetData(w2, r, [d2 EXCEPT
                                          !.input = Tail(@),
                                          !.output = @ \o Copies(recipe.output, recipe.count),
                                          !.cooldown = recipe.time]), e.id)
       ELSE w2

\* The number of items named `name` in a buffer.
CountItem(buf, name) == Cardinality({i \in 1..Len(buf) : buf[i].item = name})

RECURSIVE RemoveEvery(_, _, _)
\* A removal that takes every item named `name`, however many are needed.
RemoveEvery(buf, name, needed) ==
    IF buf = <<>> THEN <<>>
    ELSE IF Head(buf).item = name
    THEN RemoveEvery(Tail(buf), name, needed)
    ELSE <<Head(buf)>> \o RemoveEvery(Tail(buf), name, needed)

RECURSIVE RemoveFirst(_, _, _)
\* The inner loop of update_assembler: the buffer without its first `needed`
\* items named `name`, the others in their order.
RemoveFirst(buf, name, needed) ==
    IF buf = <<>> THEN <<>>
    ELSE IF Head(buf).item = name /\ needed > 0
    THEN RemoveFirst(Tail(buf), name, needed - 1)
    ELSE <<Head(buf)>> \o RemoveFirst(Tail(buf), name, needed)

RECURSIVE Consume(_, _, _)
\* "Consomme les ingredients": RemoveFirst for every ingredient of `todo`.
Consume(buf, ingredients, todo) ==
    IF todo = {} THEN buf
    ELSE LET g == CHOOSE x \in todo : TRUE IN
         Consume(RemoveFirst(buf, g, ingredients[g]), ingredients, todo \ {g})

\* Simulation.update_assembler
update_assembler(w, r) ==
    LET e        == Obj(w, r)
        d        == e.data
        recipe   == config.assembler_recipes[d.recipe]
        res      == IF d.output # <<>>
                    THEN push_downstream(w, Neighbour(w, e, 1), d.output[1].item,
                                         {"CONVEYOR", "CHEST"})
                    ELSE [w |-> w, transferred |-> FALSE]
        w2       == IF res.transferred
                    THEN mark_dirty(SetData(res.w, r, [Obj(res.w, r).data EXCEPT
                                                !.output = Tail(@)]), e.id)
                    ELSE res.w
        d2       == Obj(w2, r).data
        can_craft == \A g \in DOMAIN recipe.ingredients :
                        CountItem(d2.input, g) >= recipe.ingredients[g]
    IN IF d.cooldown > 0
       THEN SetData(w, r, [d EXCEPT !.cooldown = d.cooldown - 1])
       ELSE IF d.recipe = "none" \/ d.recipe \notin DOMAIN config.assembler_recipes
       THEN w
       ELSE IF Len(d2.output) >= Cfg("ASSEMBLER").output_buffer_size THEN w2
       ELSE IF ~can_craft THEN w2
       ELSE mark_dirty(SetData(w2, r, [d2 EXCEPT
                !.input = Consume(d2.input, recipe.ingredients, DOMAIN recipe.ingredients),
                !.output = @ \o Copies(recipe.result, recipe.count),
                !.cooldown = recipe.time]), e.id)

\* The buffer extract_item_from reads for each kind of source.
ExtractField(ty) == IF ty \in {"CHEST", "CONVEYOR"} THEN "items" ELSE "output"

\* The position of the first conveyor item whose progress is >= 0.9, 0 if none.
FirstReady(items) ==
    LET ready == {i \in 1..Len(items) : items[i].progress >= EXTRACT_PROGRESS} IN
    IF ready = {} THEN 0 ELSE CHOOSE i \in ready : \A j \in ready : i <= j

\* s without its i-th element: list.pop(i).
PopAt(s, i) == SubSeq(s, 1, i - 1) \o SubSeq(s, i + 1, Len(s))

\* Simulation.extract_item_from on the index entity `id`: the item taken
\* (NoItem for None) and the world after the pop.
extract_item_from(w, id) ==
    LET t    == w.entities[id]
        ty   == t.entity_type
        d    == t.data
        none == [w |-> w, item |-> NoItem]
        i    == FirstReady(d.items)
    IN IF ty \in {"CHEST"}
       THEN IF d.items # <<>>
            THEN [w |-> SetData(w, IndexRef(id), [d EXCEPT !.items = Tail(@)]),
                  item |-> d.items[1]]
            ELSE none
       ELSE IF ty \in {"FURNACE", "MINER", "ASSEMBLER"}
       THEN IF d.output # <<>>
            THEN [w |-> SetData(w, IndexRef(id), [d EXCEPT !.output = Tail(@)]),
                  item |-> d.output[1]]
            ELSE none
       ELSE IF ty = "CONVEYOR" /\ i # 0
       THEN [w |-> SetData(w, IndexRef(id), [d EXCEPT !.items = PopAt(@, i)]),
             item |-> d.items[i]]
       ELSE none

\* Simulation.can_insert_into on the index entity `id`.
can_insert_into(w, id) ==
    LET t  == w.entities[id]
        ty == t.entity_type
    IN IF ty \in {"CHEST", "CONVEYOR"}
       THEN Len(t.data.items) < Cfg(ty).buffer_size
       ELSE IF ty \in {"FURNACE", "ASSEMBLER"}
       THEN Len(t.data.input) < Cfg(ty).input_buffer_size
       ELSE FALSE

\* Simulation.insert_item_into on the index entity `id`: the world after the
\* append and whether the item was taken.
insert_item_into(w, id, item) ==
    LET t  == w.entities[id]
        ty == t.entity_type
        d  == t.data
        no == [w |-> w, ok |-> FALSE]
    IN IF ty = "CHEST"
       THEN IF Len(d.items) < Cfg(ty).buffer_size
            THEN [w |-> SetData(w, IndexRef(id), [d EXCEPT !.items = Append(@, item)]),
                  ok |-> TRUE]
            ELSE no
       ELSE IF ty \in {"FURNACE", "ASSEMBLER"}
       THEN IF Len(d.input) < Cfg(ty).input_buffer_size
            THEN [w |-> SetData(w, IndexRef(id), [d EXCEPT !.input = Append(@, item)]),
                  ok |-> TRUE]
            ELSE no
       ELSE IF ty = "CONVEYOR"
       THEN IF Len(d.items) < Cfg(ty).buffer_size
            THEN [w |-> SetData(w, IndexRef(id),
                                [d EXCEPT !.items = Append(@, [item EXCEPT !.progress = 0])]),
                  ok |-> TRUE]
            ELSE no
       ELSE no

\* "remet l'item dans la source" of update_inserter: insert_item_into the
\* source, its result ignored, and mark_dirty(source), when a source exists.
return_to_source(w, source, item) ==
    IF source = 0 THEN w
    ELSE mark_dirty(insert_item_into(w, source, item).w, source)

\* A release that leaves the cooldown as it was.
release_without_cooldown(w, r, id) ==
    mark_dirty(SetData(w, r, [Obj(w, r).data EXCEPT !.held_item = NoItem, !.progress = 0]), id)

\* held_item = None, progress = 0.0, cooldown = the inserter's cooldown.
release(w, r, id) ==
    mark_dirty(SetData(w, r, [Obj(w, r).data EXCEPT
                                 !.held_item = NoItem, !.progress = 0,
                                 !.cooldown = Cfg("INSERTER").cooldown]), id)

\* An inserter that takes from its source without asking the destination.
update_inserter_unchecked(w, r) ==
    LET e      == Obj(w, r)
        d      == e.data
        source == Neighbour(w, e, -1)
        got    == extract_item_from(w, source)
    IN IF d.held_item # NoItem \/ d.cooldown > 0 \/ source = 0 \/ got.item = NoItem
       THEN w
       ELSE mark_dirty(mark_dirty(SetData(got.w, r, [Obj(got.w, r).data EXCEPT
                                      !.held_item = got.item, !.progress = 0]),
                                  e.id), source)

\* Simulation.update_inserter
update_inserter(w, r) ==
    LET e        == Obj(w, r)
        d        == e.data
        source   == Neighbour(w, e, -1)
        dest     == Neighbour(w, e, 1)
        progress == d.progress + Cfg("INSERTER").animation_speed
        w1       == mark_dirty(SetData(w, r, [d EXCEPT !.progress = progress]), e.id)
        put      == insert_item_into(w1, dest, d.held_item)
        got      == extract_item_from(w, source)
    IN IF d.held_item # NoItem
       THEN IF dest = 0
            THEN release(return_to_source(w, source, d.held_item), r, e.id)
            ELSE IF progress >= FULL_PROGRESS
            THEN IF put.ok
                 THEN release(mark_dirty(put.w, dest), r, e.id)
                 ELSE release(return_to_source(w1, source, d.held_item), r, e.id)
            ELSE w1
       ELSE IF d.cooldown > 0
       THEN SetData(w, r, [d EXCEPT !.cooldown = d.cooldown - 1])
       ELSE IF source = 0 \/ dest = 0 THEN w
       ELSE IF ~can_insert_into(w, dest) THEN w
       ELSE IF got.item # NoItem
       THEN mark_dirty(mark_dirty(SetData(got.w, r, [Obj(got.w, r).data EXCEPT
                                      !.held_item = got.item, !.progress = 0]),
                                  e.id), source)
       ELSE w

\* Simulation.update_entity
update_entity(w, r) ==
    LET ty == Obj(w, r).entity_type IN
    CASE ty = "CONVEYOR"  -> update_conveyor(w, r)
      [] ty = "MINER"     -> update_miner(w, r)
      [] ty = "FURNACE"   -> update_furnace(w, r)
      [] ty = "ASSEMBLER" -> update_assembler(w, r)
      [] ty = "INSERTER"  -> update_inserter(w, r)
      [] OTHER            -> w

\* The objects chunk `key` holds, in the order of its entity dict.
ChunkRefs(w, key) ==
    [i \in 1..Len(w.chunks[key].ids) |-> ChunkRef(w, key, w.chunks[key].ids[i])]

RECURSIVE AllRefs(_, _)
\* The entities Simulation.tick visits, in its order: chunk by chunk.
AllRefs(w, order) ==
    IF order = <<>> THEN <<>>
    ELSE ChunkRefs(w, Head(order)) \o AllRefs(w, Tail(order))

RECURSIVE update_all(_, _)
update_all(w, refs) ==
    IF refs = <<>> THEN w ELSE update_all(update_entity(w, Head(refs)), Tail(refs))

\* A tick that does not clear the dirty set of the tick before.
simulation_tick_keeping_dirty(w) ==
    update_all([w EXCEPT !.tick = @ + 1], AllRefs(w, w.chunk_order))

\* Simulation.tick
simulation_tick(w) ==
    update_all([w EXCEPT !.dirty_entities = {}, !.tick = @ + 1],
               AllRefs(w, w.chunk_order))

-----------------------------------------------------------------------------
(* shared/player.py : Inventory *)

Min(a, b) == IF a < b THEN a ELSE b

\* Inventory.__init__
EmptyInventory == [i \in 1..MAX_SLOTS |-> NoSlot]

RECURSIVE SumCounts(_, _, _)
SumCounts(slots, item, i) ==
    IF i > Len(slots) THEN 0
    ELSE (IF slots[i].item = item THEN slots[i].count ELSE 0)
         + SumCounts(slots, item, i + 1)

\* Inventory.count_item
count_item(slots, item) == SumCounts(slots, item, 1)

RECURSIVE add_existing(_, _, _, _)
\* First loop of add_item: tops up the stacks of `item` from slot i on.
add_existing(slots, item, remaining, i) ==
    IF i > Len(slots) \/ remaining <= 0
    THEN [slots |-> slots, remaining |-> remaining]
    ELSE IF slots[i] # NoSlot /\ slots[i].item = item /\ slots[i].count < MAX_STACK
    THEN LET to_add == Min(MAX_STACK - slots[i].count, remaining) IN
         add_existing([slots EXCEPT ![i].count = @ + to_add], item,
                      remaining - to_add, i + 1)
    ELSE add_existing(slots, item, remaining, i + 1)

RECURSIVE add_empty(_, _, _, _)
\* Second loop of add_item: opens the empty slots from slot i on.
add_empty(slots, item, remaining, i) ==
    IF i > Len(slots) \/ remaining <= 0
    THEN [slots |-> slots, remaining |-> remaining]
    ELSE IF slots[i] = NoSlot
    THEN LET to_add == Min(MAX_STACK, remaining) IN
         add_empty([slots EXCEPT ![i] = [item |-> item, count |-> to_add]], item,
                   remaining - to_add, i + 1)
    ELSE add_empty(slots, item, remaining, i + 1)

\* An add that puts everything on the first stack of `item` it finds,
\* whatever its size.
add_item_uncapped(slots, item, count) ==
    LET at == {i \in 1..Len(slots) : slots[i] # NoSlot /\ slots[i].item = item}
        i  == CHOOSE j \in at : \A k \in at : j <= k
    IN IF at = {} THEN [slots |-> add_empty(slots, item, count, 1).slots,
                        overflow |-> add_empty(slots, item, count, 1).remaining]
       ELSE [slots |-> [slots EXCEPT ![i].count = @ + count], overflow |-> 0]

\* An add that opens the empty slots before it tops up the stacks.
add_item_empty_first(slots, item, count) ==
    LET b == add_empty(slots, item, count, 1)
        a == add_existing(b.slots, item, b.remaining, 1)
    IN [slots |-> a.slots, overflow |-> a.remaining]

\* Inventory.add_item: the slots after, and the overflow it returns.
add_item(slots, item, count) ==
    LET a == add_existing(slots, item, count, 1)
        b == add_empty(a.slots, item, a.remaining, 1)
    IN [slots |-> b.slots, overflow |-> b.remaining]

RECURSIVE remove_from(_, _, _, _, _)
\* The loop of remove_item, from slot i down to the first.
remove_from(slots, item, to_remove, removed, i) ==
    IF i < 1 \/ to_remove <= 0
    THEN [slots |-> slots, removed |-> removed]
    ELSE IF slots[i] # NoSlot /\ slots[i].item = item
    THEN LET take == Min(slots[i].count, to_remove)
             left == slots[i].count - take
         IN remove_from([slots EXCEPT ![i] = IF left <= 0 THEN NoSlot
                                             ELSE [item |-> item, count |-> left]],
                        item, to_remove - take, removed + take, i - 1)
    ELSE remove_from(slots, item, to_remove, removed, i - 1)

\* A removal that stops at the last stack of `item` instead of going on to
\* the stacks before it.
remove_item_last_stack(slots, item, count) ==
    LET at == {i \in 1..Len(slots) : slots[i] # NoSlot /\ slots[i].item = item}
        i  == CHOOSE j \in at : \A k \in at : k <= j
    IN IF at = {} THEN [slots |-> slots, removed |-> 0]
       ELSE remove_from(slots, item, Min(count, slots[i].count), 0, i)

\* Inventory.remove_item: the slots after, and the number removed.
remove_item(slots, item, count) == remove_from(slots, item, count, 0, Len(slots))

-----------------------------------------------------------------------------
(* server/inventory_manager.py *)

\* The buffer transfer_to_entity fills and the limit it applies, per kind.
TransferField(ty) == IF ty = "CHEST" THEN "items" ELSE "input"
TransferMax(ty) == IF ty = "CHEST" THEN TRANSFER_CHEST_MAX ELSE TRANSFER_INPUT_MAX

\* InventoryManager.transfer_to_entity for the player with inventory `slots`:
\* the world and the inventory after, and the number it returns.
transfer_to_entity(w, slots, entity_id, item, count) ==
    LET e           == w.entities[entity_id]
        ty          == e.entity_type
        to_transfer == Min(count, count_item(slots, item))
        buf         == e.data[TransferField(ty)]
        room        == TransferMax(ty) - Len(buf)
        transferred == IF room <= 0 THEN 0 ELSE Min(to_transfer, room)
        none        == [w |-> w, slots |-> slots, transferred |-> 0]
    IN IF entity_id \notin DOMAIN w.entities THEN none
       ELSE IF to_transfer <= 0 THEN none
       ELSE IF ty \notin {"CHEST", "FURNACE", "ASSEMBLER"} THEN none
       ELSE IF transferred <= 0 THEN none
       ELSE [w |-> SetData(w, IndexRef(entity_id),
                           [e.data EXCEPT ![TransferField(ty)] =
                               buf \o Copies(item, transferred)]),
             slots |-> remove_item(slots, item, transferred).slots,
             transferred |-> transferred]

\* The position of the first item named `item` in a buffer, 0 if none.
FindItem(buf, item) ==
    LET at == {i \in 1..Len(buf) : buf[i].item = item} IN
    IF at = {} THEN 0 ELSE CHOOSE i \in at : \A j \in at : i <= j

RECURSIVE take_items(_, _, _, _, _)
\* The loop of transfer_from_entity over one buffer.
take_items(buf, slots, item, count, transferred) ==
    LET idx == FindItem(buf, item)
        a   == add_item(slots, item, 1)
    IN IF count <= 0 \/ idx = 0 \/ a.overflow # 0
       THEN [buf |-> buf, slots |-> (IF count > 0 /\ idx # 0 THEN a.slots ELSE slots),
             transferred |-> transferred]
       ELSE take_items(PopAt(buf, idx), a.slots, item, count - 1, transferred + 1)

\* InventoryManager.transfer_from_entity
transfer_from_entity(w, slots, entity_id, item, count) ==
    LET e     == w.entities[entity_id]
        ty    == e.entity_type
        field == ExtractField(ty)
        t     == take_items(e.data[field], slots, item, count, 0)
        none  == [w |-> w, slots |-> slots, transferred |-> 0]
    IN IF entity_id \notin DOMAIN w.entities THEN none
       ELSE IF ty \notin {"CHEST", "FURNACE", "ASSEMBLER", "MINER"} THEN none
       ELSE [w |-> SetData(w, IndexRef(entity_id), [e.data EXCEPT ![field] = t.buf]),
             slots |-> t.slots, transferred |-> t.transferred]

\* InventoryManager.mine_resource: the inventory after, and the item mined
\* ("none" for None).
mine_resource(w, slots, x, y) ==
    LET resource == get_resource_for_tile(get_tile(w, x, y))
        a        == add_item(slots, resource, 1)
    IN IF resource # "none"
       THEN [slots |-> a.slots, item |-> IF a.overflow = 0 THEN resource ELSE "none"]
       ELSE [slots |-> slots, item |-> "none"]

-----------------------------------------------------------------------------
(* server/chunk.py, server/persistence.py : serialisation *)

\* The values of the IntEnum classes EntityType, Direction and TileType.
EntityTypeValue ==
    [PLAYER |-> 0, CONVEYOR |-> 1, MINER |-> 2, FURNACE |-> 3, ASSEMBLER |-> 4,
     CHEST |-> 5, INSERTER |-> 6]

DirectionValue == [NORTH |-> 0, EAST |-> 1, SOUTH |-> 2, WEST |-> 3]

TileTypeValue ==
    [VOID |-> 0, GRASS |-> 1, DIRT |-> 2, STONE |-> 3, WATER |-> 4, IRON_ORE |-> 5,
     COPPER_ORE |-> 6, GOLD_ORE |-> 7, DIAMOND_ORE |-> 8, BAUXITE_ORE |-> 9,
     TIN_ORE |-> 10, URANIUM_ORE |-> 11, COAL |-> 12]

\* EnumClass(v): the member of the enum whose value is v.
EnumMember(values, v) == CHOOSE n \in DOMAIN values : values[n] = v

\* Entity.to_dict.
entity_to_dict(e) ==
    [id |-> e.id, type |-> EntityTypeValue[e.entity_type], x |-> e.x, y |-> e.y,
     dir |-> DirectionValue[e.direction], data |-> e.data]

\* An Entity.from_dict that leaves the direction at its default.
entity_from_dict_default_direction(d) ==
    [id |-> d.id, entity_type |-> EnumMember(EntityTypeValue, d.type), x |-> d.x,
     y |-> d.y, direction |-> "NORTH", data |-> d.data]

\* Entity.from_dict.
entity_from_dict(d) ==
    [id |-> d.id, entity_type |-> EnumMember(EntityTypeValue, d.type), x |-> d.x,
     y |-> d.y, direction |-> EnumMember(DirectionValue, d.dir), data |-> d.data]

\* Chunk.to_dict: int(t) of every tile, Entity.to_dict of every entity the
\* chunk holds, in order.  (json.dumps and json.loads of save_chunk and
\* load_chunk keep the integers, strings, lists and str-keyed dicts it is
\* made of.)
chunk_to_dict(w, key) ==
    [cx |-> key[1], cy |-> key[2],
     tiles |-> [t \in DOMAIN w.chunks[key].tiles |-> TileTypeValue[w.chunks[key].tiles[t]]],
     entities |-> [i \in 1..Len(w.chunks[key].ids) |->
                      entity_to_dict(Obj(w, ChunkRef(w, key, w.chunks[key].ids[i])))]]

\* Chunk.from_dict: TileType(t) of every tile, Entity.from_dict of every
\* entry: objects of the chunk's own.
chunk_from_dict(d) ==
    [cx |-> d.cx, cy |-> d.cy,
     ids |-> [i \in 1..Len(d.entities) |-> d.entities[i].id],
     copies |-> [id \in {d.entities[i].id : i \in 1..Len(d.entities)} |->
                   entity_from_dict(
                       d.entities[CHOOSE i \in 1..Len(d.entities) :
                                      /\ d.entities[i].id = id
                                      /\ \A j \in 1..Len(d.entities) :
                                            d.entities[j].id = id => j <= i])],
     dirty |-> FALSE,
     tiles |-> [t \in DOMAIN d.tiles |-> EnumMember(TileTypeValue, d.tiles[t])]]

\* "chunk = persistence.load_chunk(cx, cy); if chunk: world.chunks[key] = chunk
\* else: chunk = world.get_chunk(cx, cy)" of handle_chunk_request and
\* update_chunk_subscriptions.
load_or_get_chunk_from(db, w, key) ==
    IF key \in DOMAIN db
    THEN [w EXCEPT !.chunks = DictPut(w.chunks, key, chunk_from_dict(db[key])),
                   !.chunk_order = IF key \in DOMAIN w.chunks THEN @ ELSE Append(@, key)]
    ELSE get_chunk(w, key[1], key[2])

\* The same on the chunk table of this server's database.
load_or_get_chunk(w, key) == load_or_get_chunk_from(db_chunks, w, key)

RECURSIVE save_chunks(_, _, _)
\* Persistence.save_all_dirty_chunks: save_chunk of every dirty chunk; the
\* table after, and the world with those dirty flags cleared.
save_chunks(w, db, order) ==
    IF order = <<>> THEN [w |-> w, db |-> db]
    ELSE LET key == Head(order) IN
         IF w.chunks[key].dirty
         THEN save_chunks([w EXCEPT !.chunks[key].dirty = FALSE],
                          DictPut(db, key, chunk_to_dict(w, key)), Tail(order))
         ELSE save_chunks(w, db, Tail(order))

-----------------------------------------------------------------------------
(* server/main.py : GameServer *)

W == [entities |-> entities, chunks |-> chunks, chunk_order |-> chunk_order,
      next_entity_id |-> next_entity_id, dirty_entities |-> dirty_entities,
      tick |-> tick]

SetW(w) ==
    /\ entities' = w.entities
    /\ chunks' = w.chunks
    /\ chunk_order' = w.chunk_order
    /\ next_entity_id' = w.next_entity_id
    /\ dirty_entities' = w.dirty_entities
    /\ tick' = w.tick

Msg(to, t, d) == [to |-> to, t |-> t, d |-> d]

\* A set of integers as an ascending sequence (dicts filled in id order).
Sorted(S) ==
    [i \in 1..Cardinality(S) |->
        CHOOSE x \in S : Cardinality({y \in S : y < x}) = i - 1]

KeyLess(a, b) == a[1] < b[1] \/ (a[1] = b[1] /\ a[2] < b[2])

\* A set of chunk keys as a sequence: the order in which a set of keys is
\* walked, taken to be lexicographic.
SortedKeys(S) ==
    LET rank == [x \in S |-> Cardinality({y \in S : KeyLess(y, x)})] IN
    [i \in 1..Cardinality(S) |-> CHOOSE x \in S : rank[x] = i - 1]

\* A broadcast that leaves out the test of subscribed_chunks.
broadcast_to_all_sessions(cl, chunk_key, t, d) ==
    LET to == Sorted(DOMAIN cl) IN
    [i \in 1..Len(to) |-> Msg(to[i], t, d)]

\* GameServer.broadcast_to_chunk_subscribers: the messages it sends.
broadcast_to_chunk_subscribers(cl, chunk_key, t, d) ==
    LET to == Sorted({c \in DOMAIN cl : chunk_key \in cl[c].subscribed_chunks}) IN
    [i \in 1..Len(to) |-> Msg(to[i], t, d)]

\* A broadcast that leaves no session out.
broadcast_including(cl, exclude_id, t, d) ==
    LET to == Sorted(DOMAIN cl) IN
    [i \in 1..Len(to) |-> Msg(to[i], t, d)]

\* GameServer.broadcast_except: the messages it sends.
broadcast_except(cl, exclude_id, t, d) ==
    LET to == Sorted(DOMAIN cl \ {exclude_id}) IN
    [i \in 1..Len(to) |-> Msg(to[i], t, d)]

\* GameServer.broadcast: the messages it sends.
broadcast(cl, t, d) ==
    LET to == Sorted(DOMAIN cl) IN [i \in 1..Len(to) |-> Msg(to[i], t, d)]

\* The simulation thread is outside Simulation.tick (between two ticks, or
\* ended): world.lock is free.
WorldLockFree == sim.pc # "tick"

Last(op, id, ret) == [op |-> op, id |-> id, ret |-> ret, in_tick |-> ~WorldLockFree]

Authenticated(c) == c \in DOMAIN clients /\ clients[c].authenticated

\* GameServer.accept_connections, one connection.
accept_connections ==
    /\ next_client_id' = next_client_id + 1
    /\ clients' = DictPut(clients, next_client_id + 1,
                          [authenticated |-> FALSE, player_id |-> 0,
                           subscribed_chunks |-> {}, conn |-> <<>>,
                           buffer |-> <<>>])
    /\ sent' = <<>>
    /\ last' = Last("accept", next_client_id + 1, 0)
    /\ UNCHANGED <<locks, twin, config, tick, next_entity_id, entities, chunks, chunk_order,
                   players, dirty_entities, db_chunks, db_meta, db_players, sim>>

\* Player(...) of handle_auth on table `db`: built from the row load_player
\* returns (its keys are name, x, y, data: no inventory is read), or new.
load_or_create_player(db, c, name) ==
    IF c \in DOMAIN db
    THEN [name |-> db[c].name, x |-> db[c].x, y |-> db[c].y,
          inventory |-> EmptyInventory]
    ELSE [name |-> name, x |-> 0, y |-> 0, inventory |-> EmptyInventory]

\* Player(...) of handle_auth: loaded from table players, or new.
auth_player(c, name) == load_or_create_player(db_players, c, name)

\* GameServer.handle_auth
handle_auth(c, name) ==
    LET player == auth_player(c, name)
        others == Sorted(DOMAIN players \ {c})
    IN
    /\ c \in DOMAIN clients
    /\ clients' = [clients EXCEPT ![c].authenticated = TRUE, ![c].player_id = c]
    /\ players' = DictPut(players, c, player)
    /\ sent' = <<Msg(c, "AUTH_RESPONSE", [player_id |-> c, x |-> player.x,
                                         y |-> player.y, tick |-> tick]),
                 Msg(c, "INVENTORY_UPDATE", player.inventory)>>
               \o [i \in 1..Len(others) |->
                     Msg(c, "PLAYER_JOIN", [id |-> others[i], x |-> players[others[i]].x,
                                            y |-> players[others[i]].y])]
               \o broadcast_except(clients, c, "PLAYER_JOIN",
                                   [id |-> c, x |-> player.x, y |-> player.y])
    /\ last' = Last("auth", c, 0)
    /\ UNCHANGED <<locks, twin, config, tick, next_entity_id, entities, chunks, chunk_order,
                   next_client_id, dirty_entities, db_chunks, db_meta, db_players, sim>>

\* The loop over new_chunks of update_chunk_subscriptions, each turn of it
\* the load_or_get_chunk of one key: the world after, and the CHUNK_DATA
\* messages sent to client c (a chunk's to_dict is not changed by later turns).
subscribe_new(w, c, new_chunks) ==
    LET keys   == SortedKeys(new_chunks)
        loaded == [k \in DOMAIN w.chunks \cup new_chunks |->
                     IF k \in new_chunks
                     THEN load_or_get_chunk(w, k).chunks[k]
                     ELSE w.chunks[k]]
        fresh  == SortedKeys(new_chunks \ DOMAIN w.chunks)
        w1     == [w EXCEPT !.chunks = loaded, !.chunk_order = @ \o fresh]
    IN [w |-> w1,
        msgs |-> [i \in 1..Len(keys) |->
                     Msg(c, "CHUNK_DATA", chunk_to_dict(w1, keys[i]))]]

\* GameServer.handle_player_move, with update_chunk_subscriptions
handle_player_move(c, x, y) ==
    LET needed_chunks == get_chunks_around(x, y)
        new_chunks    == needed_chunks \ clients[c].subscribed_chunks
        sub           == subscribe_new(W, c, new_chunks)
    IN
    /\ Authenticated(c)
    /\ c \in DOMAIN players
    /\ WorldLockFree \/ new_chunks \subseteq DOMAIN db_chunks
    /\ players' = [players EXCEPT ![c].x = x, ![c].y = y]
    /\ SetW(sub.w)
    /\ clients' = [clients EXCEPT ![c].subscribed_chunks = needed_chunks]
    /\ sent' = sub.msgs \o broadcast_except(clients, c, "PLAYER_MOVE",
                                            [id |-> c, x |-> x, y |-> y])
    /\ last' = Last("move", c, 0)
    /\ UNCHANGED <<locks, twin, config, next_client_id, db_chunks, db_meta, db_players, sim>>

\* GameServer.handle_chunk_request
handle_chunk_request(c, cx, cy) ==
    LET w1 == load_or_get_chunk(W, <<cx, cy>>) IN
    /\ Authenticated(c)
    /\ WorldLockFree \/ <<cx, cy>> \in DOMAIN db_chunks
    /\ SetW(w1)
    /\ sent' = <<Msg(c, "CHUNK_DATA", chunk_to_dict(w1, <<cx, cy>>))>>
    /\ clients' = [clients EXCEPT ![c].subscribed_chunks = @ \cup {<<cx, cy>>}]
    /\ last' = Last("chunk_request", c, 0)
    /\ UNCHANGED <<locks, twin, config, players, next_client_id, db_chunks, db_meta, db_players, sim>>

\* GameServer.handle_player_action, action == ACTION_BUILD
handle_player_action_build(c, entity_type, x, y, direction) ==
    LET k        == world_to_chunk(x, y)
        w1       == get_chunk(W, k[1], k[2])
        tile     == chunk_get_tile(w1.chunks[k], x, y)
        existing == get_entity_at(w1, x, y)
        w2       == create_entity(w1, entity_type, x, y, direction)
        known    == entity_type \in DOMAIN config.entities_by_name
        built    == (known => can_place_entity(entity_type, tile)) /\ existing = 0
    IN
    /\ Authenticated(c)
    /\ WorldLockFree
    /\ SetW(IF built THEN w2 ELSE w1)
    /\ sent' = IF built
               THEN broadcast_to_chunk_subscribers(clients, k, "ENTITY_ADD",
                                                   w2.entities[next_entity_id])
               ELSE <<>>
    /\ last' = Last("build", c, IF built THEN next_entity_id ELSE 0)
    /\ UNCHANGED <<locks, twin, config, players, clients, next_client_id, db_chunks, db_meta,
                   db_players, sim>>

\* GameServer.handle_player_action, action == ACTION_BUILD with an entity_type
\* that is no value of EntityType: EntityType(..) raises ValueError before
\* the tile is read, and handle_message catches and prints it.
handle_player_action_build_unknown(c) ==
    /\ Authenticated(c)
    /\ sent' = <<>>
    /\ last' = Last("build_unknown", c, 0)
    /\ UNCHANGED <<locks, twin, config, tick, next_entity_id, entities, chunks, chunk_order,
                   players, clients, next_client_id, dirty_entities, db_chunks,
                   db_meta, db_players, sim>>

\* GameServer.handle_player_action, action == ACTION_DESTROY
handle_player_action_destroy(c, entity_id) ==
    LET found == entity_id \in DOMAIN entities
        e     == entities[entity_id]
    IN
    /\ Authenticated(c)
    /\ WorldLockFree
    /\ SetW(remove_entity(W, entity_id))
    /\ sent' = IF found
               THEN broadcast_to_chunk_subscribers(clients, world_to_chunk(e.x, e.y),
                                                   "ENTITY_REMOVE", [id |-> entity_id])
               ELSE <<>>
    /\ last' = Last("destroy", c, IF found THEN entity_id ELSE 0)
    /\ UNCHANGED <<locks, twin, config, players, clients, next_client_id, db_chunks, db_meta,
                   db_players, sim>>

\* GameServer.handle_player_action, action == ACTION_CONFIGURE
handle_player_action_configure(c, entity_id, recipe) ==
    LET found == entity_id \in DOMAIN entities
        e     == [entities[entity_id] EXCEPT !.data.recipe = recipe]
    IN
    /\ Authenticated(c)
    /\ entities' = IF found THEN [entities EXCEPT ![entity_id] = e] ELSE entities
    /\ sent' = IF found
               THEN broadcast_to_chunk_subscribers(clients, world_to_chunk(e.x, e.y),
                                                   "ENTITY_UPDATE", e)
               ELSE <<>>
    /\ last' = Last("configure", c, IF found THEN entity_id ELSE 0)
    /\ UNCHANGED <<locks, twin, config, tick, next_entity_id, chunks, chunk_order, players,
                   clients, next_client_id, dirty_entities, db_chunks, db_meta,
                   db_players, sim>>

RECURSIVE Carried(_)
\* The number of items in an inventory, all kinds together.
Carried(slots) ==
    IF slots = <<>> THEN 0 ELSE Head(slots).count + Carried(Tail(slots))

\* GameServer.handle_inventory_action, INV_ACTION_PICKUP with mine = True
handle_inventory_action_mine(c, x, y) ==
    LET k == world_to_chunk(x, y)
        m == mine_resource(W, players[c].inventory, x, y)
    IN
    /\ Authenticated(c)
    /\ c \in DOMAIN players
    /\ WorldLockFree
    /\ SetW(get_chunk(W, k[1], k[2]))
    /\ players' = [players EXCEPT ![c].inventory = m.slots]
    /\ sent' = IF m.item # "none" THEN <<Msg(c, "INVENTORY_UPDATE", m.slots)>> ELSE <<>>
    /\ last' = Last("mine", c, IF m.item # "none" THEN 1 ELSE 0)
    /\ UNCHANGED <<locks, twin, config, clients, next_client_id, db_chunks, db_meta, db_players, sim>>

\* GameServer.handle_inventory_action, INV_ACTION_DROP
handle_inventory_action_drop(c, item, count) ==
    LET r == remove_item(players[c].inventory, item, count) IN
    /\ Authenticated(c)
    /\ c \in DOMAIN players
    /\ players' = [players EXCEPT ![c].inventory = r.slots]
    /\ sent' = IF r.removed > 0 THEN <<Msg(c, "INVENTORY_UPDATE", r.slots)>> ELSE <<>>
    /\ last' = Last("drop", c, r.removed)
    /\ UNCHANGED <<locks, twin, config, tick, next_entity_id, entities, chunks, chunk_order,
                   clients, next_client_id, dirty_entities, db_chunks, db_meta,
                   db_players, sim>>

\* What handle_inventory_action sends after a transfer that moved something:
\* the inventory to the player, the entity to the subscribers of its chunk.
transfer_messages(c, slots, w, entity_id, transferred) ==
    IF transferred > 0
    THEN <<Msg(c, "INVENTORY_UPDATE", slots)>>
         \o (IF entity_id \in DOMAIN w.entities
             THEN broadcast_to_chunk_subscribers(clients,
                      world_to_chunk(w.entities[entity_id].x, w.entities[entity_id].y),
                      "ENTITY_UPDATE", w.entities[entity_id])
             ELSE <<>>)
    ELSE <<>>

\* GameServer.handle_inventory_action, INV_ACTION_TRANSFER_TO
handle_inventory_action_transfer_to(c, entity_id, item, count) ==
    LET r == transfer_to_entity(W, players[c].inventory, entity_id, item, count) IN
    /\ Authenticated(c)
    /\ c \in DOMAIN players
    /\ SetW(r.w)
    /\ players' = [players EXCEPT ![c].inventory = r.slots]
    /\ sent' = transfer_messages(c, r.slots, r.w, entity_id, r.transferred)
    /\ last' = Last("transfer_to", entity_id, r.transferred)
    /\ UNCHANGED <<locks, twin, config, clients, next_client_id, db_chunks, db_meta, db_players, sim>>

\* GameServer.handle_inventory_action, INV_ACTION_TRANSFER_FROM
handle_inventory_action_transfer_from(c, entity_id, item, count) ==
    LET r == transfer_from_entity(W, players[c].inventory, entity_id, item, count) IN
    /\ Authenticated(c)
    /\ c \in DOMAIN players
    /\ SetW(r.w)
    /\ players' = [players EXCEPT ![c].inventory = r.slots]
    /\ sent' = transfer_messages(c, r.slots, r.w, entity_id, r.transferred)
    /\ last' = Last("transfer_from", entity_id, r.transferred)
    /\ UNCHANGED <<locks, twin, config, clients, next_client_id, db_chunks, db_meta, db_players, sim>>

RECURSIVE update_messages(_, _, _)
\* The broadcast loop of world_loop over Simulation.get_dirty_entities.
update_messages(w, cl, ids) ==
    IF ids = <<>> THEN <<>>
    ELSE LET e == w.entities[Head(ids)] IN
         broadcast_to_chunk_subscribers(cl, world_to_chunk(e.x, e.y), "ENTITY_UPDATE", e)
         \o update_messages(w, cl, Tail(ids))

\* Simulation.get_dirty_entities: the dirty ids still in the index.
get_dirty_entities(w) == Sorted(w.dirty_entities \cap DOMAIN w.entities)

\* GameServer.world_loop, one iteration: Simulation.tick, then the broadcast
\* of the modified entities.
world_loop ==
    LET w1 == simulation_tick(W) IN
    /\ sim.pc = "idle"
    /\ SetW(w1)
    /\ sent' = update_messages(w1, clients, get_dirty_entities(w1))
    /\ last' = Last("tick", 0, Cardinality(w1.dirty_entities))
    /\ UNCHANGED <<locks, twin, config, players, clients, next_client_id, db_chunks, db_meta,
                   db_players, sim>>

\* Simulation.tick up to the loop: world.lock taken, tick counted, the dirty
\* set cleared, the entities to visit listed.
tick_begin ==
    /\ sim.pc = "idle"
    /\ tick' = tick + 1
    /\ dirty_entities' = {}
    /\ sim' = [pc |-> "tick", todo |-> AllRefs(W, chunk_order)]
    /\ sent' = <<>>
    /\ last' = [op |-> "tick_begin", id |-> 0, ret |-> 0, in_tick |-> TRUE]
    /\ UNCHANGED <<locks, twin, config, next_entity_id, entities, chunks, chunk_order, players,
                   clients, next_client_id, db_chunks, db_meta, db_players>>

\* Simulation.tick, one turn of the loop: update_entity of the next entity.
tick_step ==
    /\ sim.pc = "tick"
    /\ sim.todo # <<>>
    /\ SetW(update_entity(W, Head(sim.todo)))
    /\ sim' = [sim EXCEPT !.todo = Tail(@)]
    /\ sent' = <<>>
    /\ last' = [op |-> "tick_step", id |-> Head(sim.todo).id, ret |-> 0, in_tick |-> TRUE]
    /\ UNCHANGED <<locks, twin, config, players, clients, next_client_id, db_chunks, db_meta,
                   db_players>>

\* The end of Simulation.tick (world.lock released) and the broadcast of
\* world_loop.
tick_end ==
    /\ sim.pc = "tick"
    /\ sim.todo = <<>>
    /\ sim' = [pc |-> "idle", todo |-> <<>>]
    /\ sent' = update_messages(W, clients, get_dirty_entities(W))
    /\ last' = [op |-> "tick", id |-> 0, ret |-> Cardinality(dirty_entities),
                in_tick |-> FALSE]
    /\ UNCHANGED <<locks, twin, config, tick, next_entity_id, entities, chunks, chunk_order,
                   players, clients, next_client_id, dirty_entities, db_chunks,
                   db_meta, db_players>>

\* A save_player that writes no row.
save_players_nowhere(db, ids) == db

\* Persistence.save_player of every player of `ids` (the inventory is not
\* among the columns written).
save_players(db, ids) ==
    [c \in DOMAIN db \cup ids |->
        IF c \in ids THEN [name |-> players[c].name, x |-> players[c].x, y |-> players[c].y]
        ELSE db[c]]

\* GameServer.save_world
save_world ==
    LET s == save_chunks(W, db_chunks, chunk_order) IN
    /\ WorldLockFree
    /\ db_meta' = [saved |-> TRUE, tick |-> tick, next_entity_id |-> next_entity_id]
    /\ db_chunks' = s.db
    /\ chunks' = s.w.chunks
    /\ db_players' = save_players(db_players, DOMAIN players)
    /\ sent' = <<>>
    /\ last' = Last("save", 0, 0)
    /\ UNCHANGED <<locks, twin, config, tick, next_entity_id, entities, chunk_order, players,
                   clients, next_client_id, dirty_entities, sim>>

\* GameServer.disconnect_client
disconnect_client(c) ==
    LET known == clients[c].authenticated /\ c \in DOMAIN players IN
    /\ c \in DOMAIN clients
    /\ clients' = DictPop(clients, c)
    /\ db_players' = IF known THEN save_players(db_players, {c}) ELSE db_players
    /\ players' = IF clients[c].authenticated THEN DictPop(players, c) ELSE players
    /\ sent' = IF clients[c].authenticated
               THEN broadcast(DictPop(clients, c), "PLAYER_LEAVE", [id |-> c])
               ELSE <<>>
    /\ last' = Last("disconnect", c, 0)
    /\ UNCHANGED <<locks, twin, config, tick, next_entity_id, entities, chunks, chunk_order,
                   next_client_id, dirty_entities, db_chunks, db_meta, sim>>

\* GameServer.disconnect_client of a session that is no longer in the table
\* (clients.pop returns None): nothing is done.
disconnect_client_again(c) ==
    /\ c \notin DOMAIN clients
    /\ sent' = <<>>
    /\ last' = Last("disconnect_again", c, 0)
    /\ UNCHANGED <<locks, twin, config, tick, next_entity_id, entities, chunks, chunk_order,
                   players, clients, next_client_id, dirty_entities, db_chunks,
                   db_meta, db_players, sim>>

\* GameServer.handle_message, MSG_SYNC: answered whether or not the session
\* has authenticated.
handle_sync(c, client_time) ==
    /\ c \in DOMAIN clients
    /\ sent' = <<Msg(c, "SYNC", [client_time |-> client_time, tick |-> tick])>>
    /\ last' = Last("sync", c, 0)
    /\ UNCHANGED <<locks, twin, config, tick, next_entity_id, entities, chunks, chunk_order,
                   players, clients, next_client_id, dirty_entities, db_chunks,
                   db_meta, db_players, sim>>

\* The message types handle_message passes on only "if client.authenticated".
GuardedTypes == {"PLAYER_MOVE", "CHUNK_REQUEST", "PLAYER_ACTION", "INVENTORY_ACTION"}

\* GameServer.handle_message, a message of a guarded type from a session that
\* has not authenticated: the branch does nothing.
handle_message_unauthenticated(c, msg_type) ==
    /\ c \in DOMAIN clients
    /\ ~clients[c].authenticated
    /\ msg_type \in GuardedTypes
    /\ sent' = <<>>
    /\ last' = Last("ignored", c, 0)
    /\ UNCHANGED <<locks, twin, config, tick, next_entity_id, entities, chunks, chunk_order,
                   players, clients, next_client_id, dirty_entities, db_chunks,
                   db_meta, db_players, sim>>

\* GameServer.disconnect_client(f) called by send_to when the send to session
\* f raised, on session table cl and players pl: the tables after, and the
\* PLAYER_LEAVE messages.
disconnect_after_error(cl, pl, db, f) ==
    LET cl1 == DictPop(cl, f) IN
    [clients |-> cl1,
     players |-> IF cl[f].authenticated /\ f \in DOMAIN pl THEN DictPop(pl, f) ELSE pl,
     db_players |-> IF cl[f].authenticated /\ f \in DOMAIN pl
                    THEN [c \in DOMAIN db \cup {f} |->
                            IF c = f THEN [name |-> pl[f].name, x |-> pl[f].x, y |-> pl[f].y]
                            ELSE db[c]]
                    ELSE db,
     msgs |-> IF cl[f].authenticated THEN broadcast(cl1, "PLAYER_LEAVE", [id |-> f])
              ELSE <<>>]

\* The broadcast loop of world_loop over the dirty entities of world w1 when
\* the socket of session f raises on send: the entities before the first one
\* whose chunk f subscribes to are broadcast; of that one, the sessions before
\* f get the ENTITY_UPDATE, then send_to catches the error of f and calls
\* disconnect_client(f), which pops f from the dict that
\* broadcast_to_chunk_subscribers is walking: the walk raises RuntimeError.
\* `hit` tells whether f was sent to at all.
broadcast_send_error(w1, cl, pl, db, f) ==
    LET ids  == get_dirty_entities(w1)
        key(i) == world_to_chunk(w1.entities[ids[i]].x, w1.entities[ids[i]].y)
        hits == {i \in 1..Len(ids) : key(i) \in cl[f].subscribed_chunks}
        n    == IF hits = {} THEN 0 ELSE CHOOSE i \in hits : \A j \in hits : i <= j
        reached == [c \in {s \in DOMAIN cl : s < f} |-> cl[c]]
        d    == disconnect_after_error(cl, pl, db, f)
    IN [hit |-> hits # {},
        clients |-> d.clients, players |-> d.players, db_players |-> d.db_players,
        msgs |-> IF hits = {} THEN <<>>
                 ELSE update_messages(w1, cl, SubSeq(ids, 1, n - 1))
                      \o broadcast_to_chunk_subscribers(reached, key(n), "ENTITY_UPDATE",
                                                        w1.entities[ids[n]])
                      \o d.msgs]

\* GameServer.world_loop, one iteration that ticks world W into w1 and in
\* which the socket of session f raises on send: nothing in world_loop
\* catches the RuntimeError of the broadcast, and the simulation thread ends.
world_loop_raises(w1, f) ==
    LET b == broadcast_send_error(w1, clients, players, db_players, f) IN
    /\ sim.pc = "idle"
    /\ f \in DOMAIN clients
    /\ b.hit
    /\ SetW(w1)
    /\ clients' = b.clients
    /\ players' = b.players
    /\ db_players' = b.db_players
    /\ sent' = b.msgs
    /\ sim' = [pc |-> "dead", todo |-> <<>>]
    /\ last' = [op |-> "tick_send_error", id |-> 0, ret |-> f, in_tick |-> FALSE]
    /\ UNCHANGED <<locks, twin, config, next_client_id, db_chunks, db_meta>>

world_loop_send_error(f) == world_loop_raises(simulation_tick(W), f)

\* GameServer.receive_from_clients handling a PLAYER_MOVE of session c while
\* the socket of session f raises on send: broadcast_except walks a copy of
\* the keys, so the sessions after f are still sent the PLAYER_MOVE, but
\* disconnect_client(f) has popped f from self.clients, which the loop of
\* receive_from_clients is walking: its next turn raises RuntimeError, which
\* neither network_loop nor run catches, and the process ends.
handle_player_move_send_error(c, x, y, f) ==
    LET needed_chunks == get_chunks_around(x, y)
        new_chunks    == needed_chunks \ clients[c].subscribed_chunks
        sub           == subscribe_new(W, c, new_chunks)
        cl0           == [clients EXCEPT ![c].subscribed_chunks = needed_chunks]
        pl0           == [players EXCEPT ![c].x = x, ![c].y = y]
        d             == disconnect_after_error(cl0, pl0, db_players, f)
        before        == [s \in {t \in DOMAIN clients : t < f} |-> clients[s]]
        after         == [s \in {t \in DOMAIN clients : t > f} |-> clients[s]]
        move          == [id |-> c, x |-> x, y |-> y]
    IN
    /\ Authenticated(c)
    /\ c \in DOMAIN players
    /\ f \in DOMAIN clients \ {c}
    /\ WorldLockFree \/ new_chunks \subseteq DOMAIN db_chunks
    /\ SetW(sub.w)
    /\ clients' = d.clients
    /\ players' = d.players
    /\ db_players' = d.db_players
    /\ sent' = sub.msgs \o broadcast_except(before, c, "PLAYER_MOVE", move)
               \o d.msgs \o broadcast_except(after, c, "PLAYER_MOVE", move)
    /\ sim' = [pc |-> "exited", todo |-> <<>>]
    /\ last' = [op |-> "move_send_error", id |-> c, ret |-> f, in_tick |-> FALSE]
    /\ UNCHANGED <<locks, twin, config, next_client_id, db_chunks, db_meta>>

\* A restart that creates a new world whatever the database holds.
restart_new_world ==
    /\ tick' = 0
    /\ next_entity_id' = 1
    /\ entities' = <<>>
    /\ chunks' = <<>>
    /\ chunk_order' = <<>>
    /\ players' = <<>>
    /\ clients' = <<>>
    /\ next_client_id' = 0
    /\ dirty_entities' = {}
    /\ sim' = [pc |-> "idle", todo |-> <<>>]
    /\ sent' = <<>>
    /\ last' = [op |-> "restart", id |-> 0, ret |-> 0, in_tick |-> FALSE]
    /\ UNCHANGED <<locks, twin, config, db_chunks, db_meta, db_players>>

\* The process stops and GameServer.__init__ runs again on the same database:
\* load_or_create_world, no chunk in memory, no client.
restart ==
    /\ tick' = IF db_meta.saved THEN db_meta.tick ELSE 0
    /\ next_entity_id' = IF db_meta.saved THEN db_meta.next_entity_id ELSE 1
    /\ entities' = <<>>
    /\ chunks' = <<>>
    /\ chunk_order' = <<>>
    /\ players' = <<>>
    /\ clients' = <<>>
    /\ next_client_id' = 0
    /\ dirty_entities' = {}
    /\ sim' = [pc |-> "idle", todo |-> <<>>]
    /\ sent' = <<>>
    /\ last' = [op |-> "restart", id |-> 0, ret |-> 0, in_tick |-> FALSE]
    /\ UNCHANGED <<locks, twin, config, db_chunks, db_meta, db_players>>

-----------------------------------------------------------------------------
(* Specifications *)

\* GameServer.__init__ on an empty database, with catalog cfg.
InitServer(cfg) ==
    /\ locks = NoLocks
    /\ twin = NoTwin
    /\ config = cfg
    /\ tick = 0
    /\ next_entity_id = 1
    /\ entities = <<>>
    /\ chunks = <<>>
    /\ chunk_order = <<>>
    /\ players = <<>>
    /\ clients = <<>>
    /\ next_client_id = 0
    /\ dirty_entities = {}
    /\ db_chunks = <<>>
    /\ db_meta = [saved |-> FALSE, tick |-> 0, next_entity_id |-> 1]
    /\ db_players = <<>>
    /\ sent = <<>>
    /\ last = [op |-> "init", id |-> 0, ret |-> 0, in_tick |-> FALSE]
    /\ sim = [pc |-> "idle", todo |-> <<>>]

ClientIds == 1..MaxClients
EntityIds == 1..MaxEntityId

\* The world and its persistence: a session builds and destroys, moves and
\* requests chunks; the world ticks, is saved, and the server restarts.
Init == InitServer(SmallCatalog)

WorldKinds == {"MINER", "CHEST"}
WorldTiles == {<<0, 0>>, <<1, 0>>}

Next ==
    \/ next_client_id < MaxClients /\ accept_connections
    \/ \E c \in ClientIds : handle_auth(c, "a")
    \/ \E c \in ClientIds : handle_player_move(c, 0, 0)
    \/ \E c \in ClientIds : handle_chunk_request(c, 0, 0)
    \/ \E c \in ClientIds, k \in WorldKinds, p \in WorldTiles :
          next_entity_id <= MaxEntityId
          /\ handle_player_action_build(c, k, p[1], p[2], "EAST")
    \/ \E c \in ClientIds, id \in EntityIds : handle_player_action_destroy(c, id)
    \/ tick < MaxTick /\ world_loop
    \/ save_world
    \/ \E c \in ClientIds : disconnect_client(c)
    \/ restart

Spec == Init /\ [][Next]_vars

-----------------------------------------------------------------------------
(* Properties of the world and its persistence (Spec) *)

\* The entity objects the world holds: those of the index and those of the
\* entity dict of every loaded chunk.
HeldEntities ==
    {entities[id] : id \in DOMAIN entities}
    \cup UNION {{Obj(W, ChunkRef(W, k, id)) : id \in SeqToSet(chunks[k].ids)} :
                   k \in DOMAIN chunks}

\* C1: no two entities held by the world, in the index or in a loaded chunk's
\* entity set, stand on the same tile.
C1_OneEntityPerTile ==
    \A a, b \in HeldEntities : (a.x = b.x /\ a.y = b.y) => a.id = b.id

\* C6: every entity of the index is in the entity set of the loaded chunk of
\* its position, and in the entity set of no other chunk.
C6_IndexedEntityInItsChunk ==
    \A id \in DOMAIN entities :
        LET k == world_to_chunk(entities[id].x, entities[id].y) IN
        /\ k \in DOMAIN chunks
        /\ \A k2 \in DOMAIN chunks : (id \in SeqToSet(chunks[k2].ids)) <=> (k2 = k)

\* C7: a CHUNK_REQUEST or a MOVE leaves every chunk that was in memory in
\* memory, with every entity that had been placed in it.
C7_LoadedChunkIsKept ==
    [][last'.op \in {"chunk_request", "move"}
          => \A k \in DOMAIN chunks :
                /\ k \in DOMAIN chunks'
                /\ SeqToSet(chunks[k].ids) \subseteq SeqToSet(chunks'[k].ids)]_vars

\* C8: right after a flush, the persisted copy of every loaded chunk equals
\* the chunk in memory (every change since the last flush had set the flag).
C8_FlushedEqualsMemory ==
    last.op = "save"
        => \A k \in DOMAIN chunks :
              k \in DOMAIN db_chunks /\ db_chunks[k] = chunk_to_dict(W, k)

-----------------------------------------------------------------------------
(* Areas of interest (SpecAoI): two sessions move between two areas, one of *)
(* which holds the chunk of the only machine, while the world ticks.        *)

MaxAoIClients == 2
MaxAoIEntityId == 1
MaxAoITick == 2

AoIClientIds == 1..MaxAoIClients
AoIEntityIds == 1..MaxAoIEntityId
\* Two positions whose areas share no chunk with each other's centre.
AoIMoves == {<<0, 0>>, <<CHUNK_SIZE * (PLAYER_VIEW_DISTANCE + 1), 0>>}

InitAoI == InitServer(SmallCatalog)

NextAoI ==
    \/ next_client_id < MaxAoIClients /\ accept_connections
    \/ \E c \in AoIClientIds : handle_auth(c, "a")
    \/ \E c \in AoIClientIds, p \in AoIMoves : handle_player_move(c, p[1], p[2])
    \/ \E c \in AoIClientIds : handle_chunk_request(c, 0, 0)
    \/ \E c \in AoIClientIds :
          next_entity_id <= MaxAoIEntityId
          /\ handle_player_action_build(c, "MINER", 0, 0, "EAST")
    \/ \E c \in AoIClientIds, id \in AoIEntityIds :
          handle_player_action_configure(c, id, "iron_gear")
    \/ tick < MaxAoITick /\ world_loop
    \/ \E c \in AoIClientIds : disconnect_client(c)

SpecAoI == InitAoI /\ [][NextAoI]_vars

\* The chunk of the entity an ENTITY_UPDATE message carries.
update_chunk(m) == world_to_chunk(m.d.x, m.d.y)

\* C10: every ENTITY_UPDATE a step sends goes to a session that has the chunk
\* of the entity among its subscribed chunks when the step sends it.
C10_UpdatesOnlyToSubscribers ==
    [][\A i \in 1..Len(sent') :
          sent'[i].t = "ENTITY_UPDATE"
              => /\ sent'[i].to \in DOMAIN clients
                 /\ update_chunk(sent'[i]) \in clients[sent'[i].to].subscribed_chunks]_vars

\* A tick has just sent an ENTITY_UPDATE while another session, authenticated,
\* had not subscribed to the chunk of the entity and received nothing.
C10_Witness ==
    /\ last.op = "tick"
    /\ \E i \in 1..Len(sent) :
          /\ sent[i].t = "ENTITY_UPDATE"
          /\ \E c \in DOMAIN clients :
                /\ clients[c].authenticated
                /\ update_chunk(sent[i]) \notin clients[c].subscribed_chunks
                /\ \A j \in 1..Len(sent) : sent[j].to # c

-----------------------------------------------------------------------------
(* The machines (SpecSim): one session mines, builds a line of machines on  *)
(* the tiles (0,0), (1,0), (2,0), fills and empties them, while the world   *)
(* ticks.                                                                   *)

MaxSimEntityId == 3
MaxSimTick == 7

SimEntityIds == 1..MaxSimEntityId

\* What the session builds, every machine facing EAST: a miner on the ore
\* tile, a carrier next to it, a sink at the end.
SimBuilds ==
    ({"MINER"} \X {<<0, 0>>})
    \cup ({"INSERTER", "CONVEYOR"} \X {<<1, 0>>})
    \cup ({"CHEST", "CONVEYOR", "FURNACE", "ASSEMBLER", "INSERTER", "MINER"} \X {<<2, 0>>})

InitSim == InitServer(SmallCatalog)

NextSim ==
    \/ next_client_id < 1 /\ accept_connections
    \/ ~Authenticated(1) /\ handle_auth(1, "a")
    \/ \E b \in SimBuilds :
          next_entity_id <= MaxSimEntityId
          /\ handle_player_action_build(1, b[1], b[2][1], b[2][2], "EAST")
    \/ \E id \in SimEntityIds : handle_player_action_destroy(1, id)
    \/ \E id \in SimEntityIds : handle_player_action_configure(1, id, "copper_dust")
    \/ tick < MaxSimTick /\ world_loop

SpecSim == InitSim /\ [][NextSim]_vars

-----------------------------------------------------------------------------
(* Properties of the machines (SpecSim) *)

\* C2: every buffer of every entity holds at most what the catalog declares
\* for it.
C2_BuffersWithinCapacity ==
    \A id \in DOMAIN entities :
        LET e == entities[id]
            c == Cfg(e.entity_type)
        IN CASE e.entity_type = "MINER" -> Len(e.data.output) <= c.buffer_size
             [] e.entity_type \in {"FURNACE", "ASSEMBLER"} ->
                    /\ Len(e.data.input) <= c.input_buffer_size
                    /\ Len(e.data.output) <= c.output_buffer_size
             [] e.entity_type \in {"CHEST", "CONVEYOR"} ->
                    Len(e.data.items) <= c.buffer_size
             [] OTHER -> TRUE

ItemNames == {"copper_ore", "copper_plate", "copper_dust"}

\* The number of items named `name` an entity holds, buffers and hand.
Holds(e, name) ==
    CountItem(e.data.items, name) + CountItem(e.data.input, name)
    + CountItem(e.data.output, name)
    + (IF e.data.held_item.item = name THEN 1 ELSE 0)

RECURSIVE HoldsAll(_, _, _)
\* The number of items named `name` the entities `ids` of world w hold.
HoldsAll(w, ids, name) ==
    IF ids = <<>> THEN 0
    ELSE Holds(w.entities[Head(ids)], name) + HoldsAll(w, Tail(ids), name)

ItemsIn(w, name) == HoldsAll(w, Sorted(DOMAIN w.entities), name)

\* The entities the next tick visits, in its order, and the world each of
\* them is updated in: the world after the updates of those before it.
TickRefs == AllRefs(W, chunk_order)
WorldBefore(i) ==
    update_all([W EXCEPT !.dirty_entities = {}, !.tick = @ + 1],
               SubSeq(TickRefs, 1, i - 1))

\* C4: no update of an inserter in the next tick makes an item disappear:
\* what the inserter held is held, delivered or back in the source.
C4_InserterKeepsItem ==
    \A i \in 1..Len(TickRefs) :
        Obj(W, TickRefs[i]).entity_type = "INSERTER"
            => \A n \in ItemNames :
                  ItemsIn(update_inserter(WorldBefore(i), TickRefs[i]), n)
                      >= ItemsIn(WorldBefore(i), n)

\* Whether the entity in front of conveyor e takes no item: none there, of a
\* kind that accepts none, or full.
Blocked(w, e) ==
    LET target == Neighbour(w, e, 1) IN
    \/ target = 0
    \/ w.entities[target].entity_type \notin {"CONVEYOR", "CHEST", "FURNACE", "ASSEMBLER"}
    \/ ~can_insert_into(w, target)

\* C5: no update of a conveyor in the next tick drops or duplicates an item,
\* and in front of a target that takes nothing every item stays, the ones that
\* reached the end with progress 0.99.
C5_ConveyorKeepsItems ==
    \A i \in 1..Len(TickRefs) :
        Obj(W, TickRefs[i]).entity_type = "CONVEYOR"
            => LET wb     == WorldBefore(i)
                   wa     == update_conveyor(wb, TickRefs[i])
                   before == Obj(wb, TickRefs[i]).data.items
                   after  == Obj(wa, TickRefs[i]).data.items
               IN /\ \A n \in ItemNames : ItemsIn(wa, n) = ItemsIn(wb, n)
                  /\ \A j \in 1..Len(after) : after[j].progress <= CLAMP_PROGRESS
                  /\ Blocked(wb, Obj(wb, TickRefs[i]))
                        => /\ Len(after) = Len(before)
                           /\ \A j \in 1..Len(before) :
                                 /\ after[j].item = before[j].item
                                 /\ before[j].progress + Cfg("CONVEYOR").speed >= FULL_PROGRESS
                                       => after[j].progress = CLAMP_PROGRESS

\* A conveyor has handed items to the chest in front of it until the chest
\* was full, and now holds an item that was stopped at its end.
C5_Witness ==
    /\ \E id \in DOMAIN entities :
          /\ entities[id].entity_type = "CONVEYOR"
          /\ \E j \in 1..Len(entities[id].data.items) :
                entities[id].data.items[j].progress = CLAMP_PROGRESS
    /\ \E id \in DOMAIN entities :
          /\ entities[id].entity_type = "CHEST"
          /\ Len(entities[id].data.items) = Cfg("CHEST").buffer_size

-----------------------------------------------------------------------------
(* Transfers (SpecInv): a session that has mined 99 ores goes on mining,    *)
(* builds one machine after another on tile (1,0) and moves ores between    *)
(* its inventory and the machine.                                           *)

MaxInvEntityId == 1
MaxCarried == 102

InvEntityIds == 1..MaxInvEntityId
InvItems == {"copper_ore", "iron_ore"}
InvMined == MAX_STACK - 1

\* The server after session 1 has connected, authenticated and mined the ore
\* tile InvMined times.
InitInv ==
    LET slots == [EmptyInventory EXCEPT ![1] = [item |-> "copper_ore", count |-> InvMined]] IN
    /\ locks = NoLocks
    /\ twin = NoTwin
    /\ config = DefaultCatalog
    /\ tick = 0
    /\ next_entity_id = 1
    /\ entities = <<>>
    /\ chunks = [k \in {<<0, 0>>} |-> NewChunk(0, 0)]
    /\ chunk_order = << <<0, 0>> >>
    /\ players = [c \in {1} |-> [name |-> "a", x |-> 0, y |-> 0, inventory |-> slots]]
    /\ clients = [c \in {1} |-> [authenticated |-> TRUE, player_id |-> 1,
                                subscribed_chunks |-> {}, conn |-> <<>>,
                                buffer |-> <<>>]]
    /\ next_client_id = 1
    /\ dirty_entities = {}
    /\ db_chunks = <<>>
    /\ db_meta = [saved |-> FALSE, tick |-> 0, next_entity_id |-> 1]
    /\ db_players = <<>>
    /\ sent = <<Msg(1, "INVENTORY_UPDATE", slots)>>
    /\ last = [op |-> "mine", id |-> 1, ret |-> 1, in_tick |-> FALSE]
    /\ sim = [pc |-> "idle", todo |-> <<>>]

NextInv ==
    \/ Carried(players[1].inventory) < MaxCarried
          /\ handle_inventory_action_mine(1, 0, 0)
    \/ \E k \in {"CHEST", "FURNACE", "CONVEYOR"} :
          next_entity_id <= MaxInvEntityId
          /\ handle_player_action_build(1, k, 1, 0, "EAST")
    \/ \E id \in InvEntityIds : handle_player_action_destroy(1, id)
    \/ \E id \in InvEntityIds, item \in InvItems, n \in {1, TRANSFER_INPUT_MAX + 1} :
          handle_inventory_action_transfer_to(1, id, item, n)
    \/ \E id \in InvEntityIds :
          handle_inventory_action_transfer_from(1, id, "copper_ore", 1)

SpecInv == InitInv /\ [][NextInv]_vars

\* The number of items named `name` entity `id` of the index holds, 0 when
\* there is no such entity.
HeldBy(ents, id, name) ==
    IF id \in DOMAIN ents THEN Holds(ents[id], name) ELSE 0

\* C9: a TRANSFER_TO that reports k takes exactly k of one item from the
\* player and adds exactly k of it to the buffers of the target, and leaves
\* the other items of both as they were; with k = 0 nothing changes.
C9_TransferToConserves ==
    [][last'.op = "transfer_to"
          => \E item \in InvItems :
                /\ count_item(players'[1].inventory, item)
                      = count_item(players[1].inventory, item) - last'.ret
                /\ HeldBy(entities', last'.id, item)
                      = HeldBy(entities, last'.id, item) + last'.ret
                /\ \A other \in InvItems \ {item} :
                      /\ count_item(players'[1].inventory, other)
                            = count_item(players[1].inventory, other)
                      /\ HeldBy(entities', last'.id, other)
                            = HeldBy(entities, last'.id, other)]_vars

\* A TRANSFER_TO has just filled a furnace to the limit, moving fewer ores
\* than were asked for and taking them from two stacks of the inventory.
C9_Witness ==
    /\ last.op = "transfer_to"
    /\ last.ret = TRANSFER_INPUT_MAX
    /\ last.id \in DOMAIN entities
    /\ entities[last.id].entity_type = "FURNACE"
    /\ Len(entities[last.id].data.input) = TRANSFER_INPUT_MAX
    /\ count_item(players[1].inventory, "copper_ore") = MaxCarried - TRANSFER_INPUT_MAX

-----------------------------------------------------------------------------
(* The two threads (SpecThreads): the network thread handles the messages   *)
(* of one session while the world thread is between two ticks or inside     *)
(* Simulation.tick, which visits one entity per step. A handler that takes  *)
(* world.lock waits for the end of the tick; the others do not.             *)

MaxThreadEntityId == 2
MaxThreadTick == 2
MaxThreadMined == 1

ThreadEntityIds == 1..MaxThreadEntityId
ThreadBuilds == {<<"MINER", <<0, 0>> >>, <<"CHEST", <<1, 0>> >>}

InitThreads == InitServer(SmallCatalog)

NextThreads ==
    \/ next_client_id < 1 /\ accept_connections
    \/ ~Authenticated(1) /\ handle_auth(1, "a")
    \/ handle_player_move(1, 0, 0)
    \/ \E b \in ThreadBuilds :
          next_entity_id <= MaxThreadEntityId
          /\ handle_player_action_build(1, b[1], b[2][1], b[2][2], "EAST")
    \/ \E id \in ThreadEntityIds : handle_player_action_destroy(1, id)
    \/ \E id \in ThreadEntityIds : handle_player_action_configure(1, id, "copper_dust")
    \/ Authenticated(1)
          /\ Carried(players[1].inventory) + ItemsIn(W, "copper_ore") < MaxThreadMined
          /\ handle_inventory_action_mine(1, 0, 0)
    \/ \E id \in ThreadEntityIds :
          handle_inventory_action_transfer_to(1, id, "copper_ore", 1)
    \/ tick < MaxThreadTick /\ tick_begin
    \/ tick_step
    \/ tick_end

SpecThreads == InitThreads /\ [][NextThreads]_vars

\* The steps of the world thread.
WorldThreadOps == {"tick_begin", "tick_step", "tick"}

\* C3: while the world thread is inside a tick, no handler of the network
\* thread changes an entity, a chunk or the position of a player: what a
\* session asks for waits for the start of the next tick.
C3_NoNetworkMutationInTick ==
    [][(sim.pc = "tick" /\ last'.op \notin WorldThreadOps)
          => /\ entities' = entities
             /\ chunks' = chunks
             /\ \A c \in DOMAIN players \cap DOMAIN players' :
                   players'[c].x = players[c].x /\ players'[c].y = players[c].y]_vars

-----------------------------------------------------------------------------
(* Properties of the sessions and their areas of interest (SpecAoI) *)

\* The sessions a step sent a message of type t to.
SentTo(msgs, t) == {msgs[i].to : i \in {j \in 1..Len(msgs) : msgs[j].t = t}}

\* C11: when a player moves, the PLAYER_MOVE goes to exactly the other
\* sessions whose subscribed chunks share a chunk with the mover's.
C11_MoveOnlyToSharingSessions ==
    [][last'.op = "move"
          => \A s \in DOMAIN clients' :
                (s \in SentTo(sent', "PLAYER_MOVE"))
                    <=> /\ s # last'.id
                        /\ clients'[s].subscribed_chunks
                              \cap clients'[last'.id].subscribed_chunks # {}]_vars

-----------------------------------------------------------------------------
(* The area of interest in full (SpecArea): one session moves between       *)
(* positions on both sides of the origin, in a world that holds every row   *)
(* of chunks those positions can reach.                                     *)

MaxAreaRow == 8

AreaCatalog == [SmallCatalog EXCEPT !.chunk_rows = (-MaxAreaRow)..MaxAreaRow]

\* Positions in four chunks: the origin, just below it on both axes, and two
\* further ones whose areas overlap the others' partly.
AreaMoves ==
    {<<0, 0>>, <<-1, -1>>, <<2 * CHUNK_SIZE, -CHUNK_SIZE - 1>>,
     <<-4 * CHUNK_SIZE - 1, 4 * CHUNK_SIZE>>}

InitArea == InitServer(AreaCatalog)

NextArea ==
    \/ next_client_id < MaxClients /\ accept_connections
    \/ \E c \in ClientIds : ~Authenticated(c) /\ handle_auth(c, "a")
    \/ \E c \in ClientIds, p \in AreaMoves : handle_player_move(c, p[1], p[2])
    \/ \E c \in ClientIds : disconnect_client(c)

SpecArea == InitArea /\ [][NextArea]_vars

\* The chunks (cx, cy) with |cx - pcx| <= 3 and |cy - pcy| <= 3 around the
\* chunk (pcx, pcy) = (floor(x / 32), floor(y / 32)) of position (x, y).
Abs(v) == IF v < 0 THEN -v ELSE v
FloorDiv32(v) == CHOOSE q \in (-MaxAreaRow - 1)..(MaxAreaRow + 1) :
                    32 * q <= v /\ v < 32 * (q + 1)
SevenBySeven(x, y) ==
    {k \in ((-2 * MaxAreaRow)..(2 * MaxAreaRow)) \X ((-2 * MaxAreaRow)..(2 * MaxAreaRow)) :
        /\ Abs(k[1] - FloorDiv32(x)) <= 3
        /\ Abs(k[2] - FloorDiv32(y)) <= 3}

\* The CHUNK_DATA messages of a step that carry chunk k.
ChunkDataFor(msgs, c, k) ==
    {i \in 1..Len(msgs) : /\ msgs[i].t = "CHUNK_DATA" /\ msgs[i].to = c
                          /\ <<msgs[i].d.cx, msgs[i].d.cy>> = k}

\* C12: after a PLAYER_MOVE of an authenticated session its subscribed chunks
\* are exactly the 7x7 chunks around the chunk of the new position, and one
\* CHUNK_DATA was sent for each of them that was not subscribed before, none
\* for any other chunk.
C12_MoveSubscribesSevenBySeven ==
    [][last'.op = "move"
          => LET c    == last'.id
                 area == SevenBySeven(players'[c].x, players'[c].y)
             IN /\ clients'[c].subscribed_chunks = area
                /\ Cardinality(area) = 49
                /\ \A k \in area \cup clients[c].subscribed_chunks \cup DOMAIN chunks' :
                      Cardinality(ChunkDataFor(sent', c, k))
                          = IF k \in area \ clients[c].subscribed_chunks THEN 1 ELSE 0]_vars

\* A move to a position left of and above the origin has just subscribed some
\* chunks of its area anew and kept others.
C12_Witness ==
    /\ last.op = "move"
    /\ players[last.id].x < 0
    /\ players[last.id].y < 0
    /\ Len(sent) > 0
    /\ Len(sent) < 49
    /\ Cardinality(clients[last.id].subscribed_chunks) = 49

-----------------------------------------------------------------------------
(* Sessions (SpecSession): two sessions connect, authenticate, send         *)
(* messages before and after that, one mines and moves, sessions are closed, *)
(* the players are saved and the server restarts on its database.           *)

MaxSessionClients == 2
MaxSessionMined == 1

SessionClientIds == 1..MaxSessionClients

InitSession == InitServer(SmallCatalog)

NextSession ==
    \/ next_client_id < MaxSessionClients /\ accept_connections
    \/ \E c \in SessionClientIds : handle_auth(c, "a")
    \/ \E c \in SessionClientIds : handle_sync(c, 1)
    \/ \E c \in SessionClientIds, t \in GuardedTypes : handle_message_unauthenticated(c, t)
    \/ \E c \in SessionClientIds : handle_player_move(c, 5, 0)
    \/ \E c \in SessionClientIds :
          /\ Authenticated(c)
          /\ c \in DOMAIN players
          /\ Carried(players[c].inventory) < MaxSessionMined
          /\ handle_inventory_action_mine(c, 0, 0)
    \/ save_world
    \/ \E c \in SessionClientIds : disconnect_client(c)
    \/ \E c \in SessionClientIds : disconnect_client_again(c)
    \/ restart

SpecSession == InitSession /\ [][NextSession]_vars

\* The steps that handle a message other than AUTH.
MessageOps ==
    {"sync", "ignored", "move", "chunk_request", "build", "destroy", "configure",
     "mine", "drop", "transfer_to", "transfer_from"}

\* C13: a message other than AUTH from a session that has not authenticated
\* changes no server state, sends nothing and leaves the session connected.
C13_UnauthenticatedIgnored ==
    [][(/\ last'.op \in MessageOps
        /\ last'.id \in DOMAIN clients
        /\ ~clients[last'.id].authenticated)
          => /\ sent' = <<>>
             /\ last'.id \in DOMAIN clients'
             /\ UNCHANGED <<locks, twin, config, tick, next_entity_id, entities, chunks,
                            chunk_order, players, clients, next_client_id,
                            dirty_entities, db_chunks, db_meta, db_players, sim>>]_vars

\* The messages of `msgs` sent to session c, in order.
MsgsTo(msgs, c) == SelectSeq(msgs, LAMBDA m : m.to = c)

\* C14: an AUTH marks the session authenticated with its player id; the
\* session is sent an AUTH_RESPONSE, then an INVENTORY_UPDATE, then one
\* PLAYER_JOIN per other authenticated player; every other session is sent
\* exactly one PLAYER_JOIN, for the new player, and the new session none for
\* itself.
C14_AuthMessagesInOrder ==
    [][last'.op = "auth"
          => LET c      == last'.id
                 mine   == MsgsTo(sent', c)
                 others == {s \in DOMAIN clients' \ {c} : clients'[s].authenticated}
             IN /\ clients'[c].authenticated
                /\ clients'[c].player_id = c
                /\ c \in DOMAIN players'
                /\ Len(mine) = 2 + Cardinality(others)
                /\ mine[1].t = "AUTH_RESPONSE"
                /\ mine[1].d.player_id = c
                /\ mine[2].t = "INVENTORY_UPDATE"
                /\ \A i \in 3..Len(mine) : mine[i].t = "PLAYER_JOIN"
                /\ {mine[i].d.id : i \in 3..Len(mine)} = others
                /\ \A s \in DOMAIN clients' \ {c} :
                      LET theirs == MsgsTo(sent', s) IN
                      /\ Len(theirs) = 1
                      /\ theirs[1].t = "PLAYER_JOIN"
                      /\ theirs[1].d.id = c]_vars

\* An AUTH has just been handled while another player was authenticated: the
\* new session was sent three messages and the other session one.
C14_Witness ==
    /\ last.op = "auth"
    /\ \E s \in DOMAIN clients \ {last.id} : clients[s].authenticated
    /\ Len(MsgsTo(sent, last.id)) = 3
    /\ Len(sent) = 4

C19_PlayerRoundTrip ==
    \A id \in DOMAIN players :
        LET loaded == load_or_create_player(save_players(db_players, {id}), id, "b") IN
        /\ loaded.name = players[id].name
        /\ loaded.x = players[id].x
        /\ loaded.y = players[id].y
        /\ \A i \in 1..MAX_SLOTS : loaded.inventory[i] = players[id].inventory[i]

-----------------------------------------------------------------------------
(* Socket errors (SpecSock): sessions subscribe to the chunk of a miner; a  *)
(* tick's broadcast or a PLAYER_MOVE meets a socket that raises on send.    *)

MaxSockClients == 2
MaxSockEntityId == 1
MaxSockTick == 3

SockClientIds == 1..MaxSockClients

InitSock == InitServer(SmallCatalog)

\* The main thread is still in network_loop.
Running == sim.pc # "exited"

NextSock ==
    \/ Running /\ next_client_id < MaxSockClients /\ accept_connections
    \/ \E c \in SockClientIds : Running /\ ~Authenticated(c) /\ handle_auth(c, "a")
    \/ \E c \in SockClientIds : Running /\ handle_player_move(c, 0, 0)
    \/ \E c \in SockClientIds :
          /\ Running
          /\ next_entity_id <= MaxSockEntityId
          /\ handle_player_action_build(c, "MINER", 0, 0, "EAST")
    \/ Running /\ tick < MaxSockTick /\ world_loop
    \/ \E f \in SockClientIds : Running /\ tick < MaxSockTick /\ world_loop_send_error(f)
    \/ \E c, f \in SockClientIds : Running /\ handle_player_move_send_error(c, 0, 0, f)
    \/ \E c \in SockClientIds : Running /\ disconnect_client(c)
    \/ restart

SpecSock == InitSock /\ [][NextSock]_vars

\* C16: a send that fails tears down the session it was for and no other;
\* every other session that was to get the message gets it, and the tick loop
\* and the receive loop go on.
C16_SendErrorIsLocal ==
    [][last'.op \in {"tick_send_error", "move_send_error"}
          => LET f == last'.ret IN
             /\ DOMAIN clients' = DOMAIN clients \ {f}
             /\ sim'.pc \notin {"dead", "exited"}
             /\ last'.op = "move_send_error"
                   => \A s \in DOMAIN clients \ {f, last'.id} :
                         s \in SentTo(sent', "PLAYER_MOVE")
             /\ last'.op = "tick_send_error"
                   => \A id \in dirty_entities' \cap DOMAIN entities' :
                         \A s \in DOMAIN clients \ {f} :
                            world_to_chunk(entities'[id].x, entities'[id].y)
                                  \in clients[s].subscribed_chunks
                               => \E i \in 1..Len(sent') :
                                     /\ sent'[i].to = s
                                     /\ sent'[i].t = "ENTITY_UPDATE"
                                     /\ sent'[i].d.id = id]_vars

-----------------------------------------------------------------------------
(* Framing: shared/protocol.py and the receive loop of GameServer *)

MSG_SYNC == 13

RECV_SIZE == 4096

\* Python objects a payload decodes to: k is the Python type, v the value
\* (the bytes of a str, the <<key, value>> items of a dict in order).
PyInt(n) == [k |-> "int", v |-> n]

PyStr(s) == [k |-> "str", v |-> s]

PyMap(items) == [k |-> "map", v |-> items]

PyNone == [k |-> "nil", v |-> 0]

\* The keys 't', 'd' and 'client_time' as UTF-8 bytes.
Key_t == <<116>>

Key_d == <<100>>

Key_client_time == <<99, 108, 105, 101, 110, 116, 95, 116, 105, 109, 101>>

\* key in m, for a dict m.
HasKey(m, key) == \E i \in 1..Len(m.v) : m.v[i][1].k = "str" /\ m.v[i][1].v = key

\* m[key], for a dict m that has the key.
GetKey(m, key) ==
    LET at == {i \in 1..Len(m.v) : m.v[i][1].k = "str" /\ m.v[i][1].v = key}
    IN m.v[CHOOSE i \in at : \A j \in at : j <= i][2]

\* msgpack.packb on the objects the messages are made of: positive fixint,
\* fixstr, fixmap and nil.
RECURSIVE packb(_)
packb(o) ==
    CASE o.k = "int" -> <<o.v>>
      [] o.k = "str" -> <<160 + Len(o.v)>> \o o.v
      [] o.k = "map" ->
            IF o.v = <<>> THEN <<128>>
            ELSE LET n == Len(o.v)
                     init == packb(PyMap(SubSeq(o.v, 1, n - 1)))
                 IN <<init[1] + 1>> \o Tail(init) \o packb(o.v[n][1]) \o packb(o.v[n][2])
      [] OTHER -> <<192>>

\* msgpack.unpackb reading n objects of b from index i on: whether it
\* succeeded, the objects, and the index after them.  The formats are those
\* packb writes; any other first byte fails, as byte 0xc1 (never used by
\* msgpack) does.  A dict of m items is read as 2m objects.
RECURSIVE unpack_objects(_, _, _)
unpack_objects(b, i, n) ==
    LET fail == [ok |-> FALSE, val |-> <<>>, next |-> i]
        size == b[i] - 160
        one  == CASE b[i] < 128 -> [ok |-> TRUE, val |-> PyInt(b[i]), next |-> i + 1]
                  [] b[i] >= 128 /\ b[i] < 144 ->
                        LET r == unpack_objects(b, i + 1, 2 * (b[i] - 128))
                        IN [ok |-> r.ok, next |-> r.next,
                            val |-> PyMap([j \in 1..(Len(r.val) \div 2) |->
                                             <<r.val[2 * j - 1], r.val[2 * j]>>])]
                  [] b[i] >= 160 /\ b[i] < 192 /\ i + size <= Len(b) ->
                        [ok |-> TRUE, val |-> PyStr(SubSeq(b, i + 1, i + size)),
                         next |-> i + 1 + size]
                  [] b[i] = 192 -> [ok |-> TRUE, val |-> PyNone, next |-> i + 1]
                  [] OTHER -> [ok |-> FALSE, val |-> PyNone, next |-> i]
    IN IF n = 0 THEN [ok |-> TRUE, val |-> <<>>, next |-> i]
       ELSE IF i > Len(b) \/ ~one.ok THEN fail
       ELSE LET rest == unpack_objects(b, one.next, n - 1)
            IN [ok |-> rest.ok, val |-> <<one.val>> \o rest.val, next |-> rest.next]

\* msgpack.unpackb(b): raises unless b is exactly one object.
unpackb(b) ==
    LET r == unpack_objects(b, 1, 1)
    IN [ok |-> r.ok /\ r.next = Len(b) + 1, val |-> IF r.ok THEN r.val[1] ELSE PyNone]

\* int.to_bytes(4, 'big') and int.from_bytes(.., 'big').
to_bytes(n) == <<(n \div 16777216) % 256, (n \div 65536) % 256, (n \div 256) % 256, n % 256>>

from_bytes(b) == b[1] * 16777216 + b[2] * 65536 + b[3] * 256 + b[4]

\* protocol.pack_message: length prefix, then msgpack of {'t': .., 'd': ..}.
pack_message(msg_type, data) ==
    LET packed == packb(PyMap(<< <<PyStr(Key_t), PyInt(msg_type)>>, <<PyStr(Key_d), data>> >>))
    IN to_bytes(Len(packed)) \o packed

\* An unpack_message that drops the bytes of an incomplete frame.
unpack_message_dropping(buffer) ==
    IF Len(buffer) < 4 \/ Len(buffer) < 4 + from_bytes(buffer)
    THEN [none |-> TRUE, msg |-> PyNone, rest |-> <<>>]
    ELSE LET length == from_bytes(buffer)
             r == unpackb(SubSeq(buffer, 5, 4 + length))
         IN [none |-> ~r.ok \/ r.val.k = "nil", msg |-> r.val,
             rest |-> SubSeq(buffer, 5 + length, Len(buffer))]

\* protocol.unpack_message: (None, buffer) while the frame is incomplete,
\* (message, rest) for a decoded frame, (None, rest) when unpackb raised.  A
\* payload that decodes to None gives (None, rest) too.
unpack_message(buffer) ==
    IF Len(buffer) < 4 THEN [none |-> TRUE, msg |-> PyNone, rest |-> buffer]
    ELSE LET length == from_bytes(buffer) IN
         IF Len(buffer) < 4 + length
         THEN [none |-> TRUE, msg |-> PyNone, rest |-> buffer]
         ELSE LET r == unpackb(SubSeq(buffer, 5, 4 + length))
              IN [none |-> ~r.ok \/ r.val.k = "nil", msg |-> r.val,
                  rest |-> SubSeq(buffer, 5 + length, Len(buffer))]

\* GameServer.handle_message on the decoded message msg of session c at world
\* tick tk: msg['t'] and msg['d'] are read outside the try, so a message that
\* is no dict or lacks a key raises; MSG_SYNC answers with data['client_time'],
\* and an error there is caught and printed.  The other types are the
\* handlers above; a type no branch matches does nothing.
handle_message(c, msg, tk) ==
    IF msg.k # "map" \/ ~HasKey(msg, Key_t) \/ ~HasKey(msg, Key_d)
    THEN [raised |-> TRUE, msgs |-> <<>>]
    ELSE LET t == GetKey(msg, Key_t)
             d == GetKey(msg, Key_d)
         IN IF t.k = "int" /\ t.v = MSG_SYNC /\ d.k = "map" /\ HasKey(d, Key_client_time)
            THEN [raised |-> FALSE,
                  msgs |-> <<Msg(c, "SYNC", [client_time |-> GetKey(d, Key_client_time).v,
                                             tick |-> tk])>>]
            ELSE [raised |-> FALSE, msgs |-> <<>>]

\* The "while True" of receive_from_clients on the buffer of session c: the
\* buffer left, the messages sent by the handlers, and whether one raised.
RECURSIVE decode_loop(_, _, _)
decode_loop(c, buffer, tk) ==
    LET r == unpack_message(buffer) IN
    IF r.none THEN [buffer |-> r.rest, msgs |-> <<>>, raised |-> FALSE]
    ELSE LET h == handle_message(c, r.msg, tk) IN
         IF h.raised THEN [buffer |-> r.rest, msgs |-> <<>>, raised |-> TRUE]
         ELSE LET n == decode_loop(c, r.rest, tk)
              IN [buffer |-> n.buffer, msgs |-> h.msgs \o n.msgs, raised |-> n.raised]

\* NetworkClient.send of the client program, for session c: the bytes of one
\* frame are written to the socket.
client_send(c, frame) ==
    /\ c \in DOMAIN clients
    /\ clients' = [clients EXCEPT ![c].conn = @ \o frame]
    /\ sent' = <<>>
    /\ last' = Last("client_send", c, 0)
    /\ UNCHANGED <<locks, twin, config, tick, next_entity_id, entities, chunks, chunk_order,
                   players, next_client_id, dirty_entities, db_chunks, db_meta,
                   db_players, sim>>

\* The end of receive_from_clients for session c, the bytes read taken from
\* its socket, when its decoding loop gave r: a handler that raised puts c in
\* `disconnected`, and disconnect_client(c) runs after the loop.
after_loop(cl, pl, db, c, n, r) ==
    LET cl1 == [cl EXCEPT ![c].conn = SubSeq(@, n + 1, Len(@)), ![c].buffer = r.buffer]
        d   == disconnect_after_error(cl1, pl, db, c)
    IN IF r.raised
       THEN [clients |-> d.clients, players |-> d.players, db_players |-> d.db_players,
             msgs |-> r.msgs \o d.msgs, raised |-> 1]
       ELSE [clients |-> cl1, players |-> pl, db_players |-> db, msgs |-> r.msgs,
             raised |-> 0]

\* The state after receive_from_clients read the first n bytes of the socket
\* of session c: client.buffer += data, then the decoding loop.
received(cl, pl, db, tk, c, n) ==
    after_loop(cl, pl, db, c, n,
               decode_loop(c, cl[c].buffer \o SubSeq(cl[c].conn, 1, n), tk))

\* The step of the server from the outcome r of `received` for session c.
receive_step(c, r) ==
    /\ clients' = r.clients
    /\ players' = r.players
    /\ db_players' = r.db_players
    /\ sent' = r.msgs
    /\ last' = Last("receive", c, r.raised)
    /\ UNCHANGED <<locks, twin, config, tick, next_entity_id, entities, chunks, chunk_order,
                   next_client_id, dirty_entities, db_chunks, db_meta, sim>>

\* GameServer.receive_from_clients, one call in which recv returns n bytes for
\* session c and raises BlockingIOError for every other session.
receive_from_clients(c, n) ==
    /\ c \in DOMAIN clients
    /\ n \in 1..RECV_SIZE
    /\ n <= Len(clients[c].conn)
    /\ receive_step(c, received(clients, players, db_players, tick, c, n))

\* SpecWire: one session whose client sends SYNC frames and damaged frames,
\* read by the server in pieces of every size.
MaxWireClients == 1

MaxWireBytes == 48

WireTimes == {1, 2}

SyncFrame(k) == pack_message(MSG_SYNC, PyMap(<< <<PyStr(Key_client_time), PyInt(k)>> >>))

\* A complete frame whose payload is the byte 0xc1: unpackb raises.
CorruptFrame == to_bytes(1) \o <<193>>

\* A complete frame whose payload is {'d': {}}: it decodes, and has no 't'.
NoTypeFrame == LET p == packb(PyMap(<< <<PyStr(Key_d), PyMap(<<>>)>> >>)) IN to_bytes(Len(p)) \o p

WireFrames == {SyncFrame(k) : k \in WireTimes} \cup {CorruptFrame, NoTypeFrame}

WireClientIds == 1..MaxWireClients

InFlight(c) == Len(clients[c].conn) + Len(clients[c].buffer)

InitWire == InitServer(SmallCatalog)

NextWire ==
    \/ next_client_id < MaxWireClients /\ accept_connections
    \/ \E c \in WireClientIds, fr \in WireFrames :
          /\ c \in DOMAIN clients
          /\ InFlight(c) + Len(fr) <= MaxWireBytes
          /\ client_send(c, fr)
    \/ \E c \in WireClientIds, n \in 1..MaxWireBytes : receive_from_clients(c, n)
    \/ \E c \in WireClientIds : disconnect_client(c)
    \/ restart

SpecWire == InitWire /\ [][NextWire]_vars

\* The complete frames at the head of byte stream s, and the bytes after them.
RECURSIVE FramesOf(_)
FramesOf(s) ==
    IF Len(s) < 4 \/ Len(s) < 4 + from_bytes(s) THEN <<>>
    ELSE <<SubSeq(s, 1, 4 + from_bytes(s))>> \o FramesOf(SubSeq(s, 5 + from_bytes(s), Len(s)))

RECURSIVE RestOf(_)
RestOf(s) ==
    IF Len(s) < 4 \/ Len(s) < 4 + from_bytes(s) THEN s
    ELSE RestOf(SubSeq(s, 5 + from_bytes(s), Len(s)))

IsSync(fr) == \E k \in WireTimes : fr = SyncFrame(k)

TimeOf(fr) == CHOOSE k \in WireTimes : fr = SyncFrame(k)

\* The answers of the server to the SYNC frames among frs, in order.
SyncReplies(c, frs, tk) ==
    LET good == SelectSeq(frs, IsSync)
    IN [i \in 1..Len(good) |-> Msg(c, "SYNC", [client_time |-> TimeOf(good[i]), tick |-> tk])]

\* The bytes session c has in its buffer after the recv of this step.
Buffered(c) ==
    clients[c].buffer \o SubSeq(clients[c].conn, 1, Len(clients[c].conn) - Len(clients'[c].conn))

\* C17: when the frames a client sent are well formed, a receive step that
\* reads any number of bytes handles exactly the frames now complete in the
\* buffer, once each and in the order sent, takes from the socket only the
\* bytes it read, and leaves in the buffer exactly the bytes of the incomplete
\* frame.
C17_FramesHandledOnceInOrder ==
    [][\A c \in WireClientIds :
          (/\ last'.op = "receive"
           /\ last'.id = c
           /\ c \in DOMAIN clients
           /\ \A i \in 1..Len(FramesOf(clients[c].buffer \o clients[c].conn)) :
                 IsSync(FramesOf(clients[c].buffer \o clients[c].conn)[i]))
          => /\ c \in DOMAIN clients'
             /\ Buffered(c) \o clients'[c].conn = clients[c].buffer \o clients[c].conn
             /\ clients'[c].buffer = RestOf(Buffered(c))
             /\ sent' = SyncReplies(c, FramesOf(Buffered(c)), tick)]_vars

\* Two SYNC frames were sent; the step read the first and two bytes of the
\* length prefix of the second, answered the first and kept the two bytes.
C17_Witness ==
    /\ last.op = "receive"
    /\ 1 \in DOMAIN clients
    /\ sent = <<Msg(1, "SYNC", [client_time |-> 2, tick |-> tick])>>
    /\ clients[1].buffer = SubSeq(SyncFrame(1), 1, 2)
    /\ clients[1].conn = SubSeq(SyncFrame(1), 3, Len(SyncFrame(1)))

\* C18: a receive step never disconnects the session for a frame that fails
\* to decode or lacks a field; it skips that frame and handles every
\* well-formed frame complete in the buffer, in order, in the same step.
C18_BadFrameSkipped ==
    [][\A c \in WireClientIds :
          (last'.op = "receive" /\ last'.id = c /\ c \in DOMAIN clients)
          => /\ c \in DOMAIN clients'
             /\ clients'[c].buffer = RestOf(Buffered(c))
             /\ sent' = SyncReplies(c, FramesOf(Buffered(c)), tick)]_vars

-----------------------------------------------------------------------------
(* Chunk serialisation (Spec) *)

\* C20: for every chunk in memory, Chunk.from_dict of its Chunk.to_dict has
\* the same coordinates, the same tiles, the same entity ids in the same
\* order, and for each an entity equal to the one the chunk holds in id,
\* type, x, y, direction and data.
C20_ChunkRoundTrip ==
    \A k \in DOMAIN chunks :
        LET c == chunk_from_dict(chunk_to_dict(W, k)) IN
        /\ <<c.cx, c.cy>> = <<chunks[k].cx, chunks[k].cy>>
        /\ c.tiles = chunks[k].tiles
        /\ c.ids = chunks[k].ids
        /\ \A id \in SeqToSet(chunks[k].ids) : c.copies[id] = Obj(W, ChunkRef(W, k, id))

\* A flush has written a chunk holding a machine that faces east and has
\* mined, and the chunk is read back with that machine.
C20_Witness ==
    /\ last.op = "save"
    /\ <<0, 0>> \in DOMAIN db_chunks
    /\ <<0, 0>> \in DOMAIN chunks
    /\ db_chunks[<<0, 0>>] = chunk_to_dict(W, <<0, 0>>)
    /\ \E id \in SeqToSet(chunks[<<0, 0>>].ids) :
          LET e == chunk_from_dict(db_chunks[<<0, 0>>]).copies[id] IN
          /\ e.direction = "EAST"
          /\ e.entity_type = "MINER"
          /\ e.data.output # <<>>

-----------------------------------------------------------------------------
(* A flush in which a chunk cannot be written (SpecFlush) *)

\* GameServer.save_world called by network_loop when Persistence.save_chunk
\* of the i-th chunk of World.chunks raises (sqlite3 error): save_world_meta
\* has run, the dirty chunks before it are written and their flags cleared,
\* the flag of the chunk stays set ("chunk.dirty = False" is not reached) and
\* no player is saved; nothing between save_chunk and GameServer.run catches
\* the error, run returns and the process ends with its daemon threads.
save_world_chunk_error(i) ==
    LET s == save_chunks(W, db_chunks, SubSeq(chunk_order, 1, i - 1)) IN
    /\ WorldLockFree
    /\ i \in 1..Len(chunk_order)
    /\ chunks[chunk_order[i]].dirty
    /\ db_meta' = [saved |-> TRUE, tick |-> tick, next_entity_id |-> next_entity_id]
    /\ db_chunks' = s.db
    /\ chunks' = s.w.chunks
    /\ sim' = [pc |-> "exited", todo |-> <<>>]
    /\ sent' = <<>>
    /\ last' = [op |-> "save_chunk_error", id |-> 0, ret |-> i, in_tick |-> FALSE]
    /\ UNCHANGED <<locks, twin, config, tick, next_entity_id, entities, chunk_order, players,
                   clients, next_client_id, dirty_entities, db_players>>

MaxFlushEntityId == 1

MaxFlushTick == 1

MaxFlushChunks == 7

InitFlush == InitServer(SmallCatalog)

NextFlush ==
    \/ Running /\ next_client_id < 1 /\ accept_connections
    \/ Running /\ ~Authenticated(1) /\ handle_auth(1, "a")
    \/ Running /\ handle_player_move(1, 0, 0)
    \/ /\ Running
       /\ next_entity_id <= MaxFlushEntityId
       /\ handle_player_action_build(1, "CHEST", 0, 0, "NORTH")
    \/ Running /\ tick < MaxFlushTick /\ world_loop
    \/ Running /\ save_world
    \/ \E i \in 1..MaxFlushChunks : Running /\ save_world_chunk_error(i)
    \/ Running /\ disconnect_client(1)
    \/ restart

SpecFlush == InitFlush /\ [][NextFlush]_vars

\* C21: when the write of one chunk fails during a flush, that chunk keeps
\* its dirty flag, the other dirty chunks are still written, and the tick
\* loop and the network loop keep running.
C21_FlushErrorContained ==
    [][last'.op = "save_chunk_error"
          => /\ chunks'[chunk_order[last'.ret]].dirty
             /\ sim'.pc \notin {"dead", "exited"}]_vars

-----------------------------------------------------------------------------
(* Building and destroying (SpecBuild): a session builds machines on ore,   *)
(* grass and water, on free and on occupied tiles, and destroys entities    *)
(* that exist and that do not, while the world is saved and reloaded.       *)

MaxBuildEntityId == 3

BuildKinds == {"MINER", "CHEST"}

BuildTiles == {<<0, 0>>, <<1, 0>>, <<3, 0>>}

InitBuild == InitServer(SmallCatalog)

NextBuild ==
    \/ next_client_id < 1 /\ accept_connections
    \/ ~Authenticated(1) /\ handle_auth(1, "a")
    \/ handle_player_move(1, 0, 0)
    \/ \E k \in BuildKinds, p \in BuildTiles :
          next_entity_id <= MaxBuildEntityId
          /\ handle_player_action_build(1, k, p[1], p[2], "NORTH")
    \/ handle_player_action_build_unknown(1)
    \/ \E id \in 1..(MaxBuildEntityId + 1) : handle_player_action_destroy(1, id)
    \/ save_world
    \/ handle_chunk_request(1, 0, 0)
    \/ disconnect_client(1)
    \/ restart

SpecBuild == InitBuild /\ [][NextBuild]_vars

\* can_place of the placement rules: the tile is not forbidden, and is among
\* the allowed tiles when there are any.
CanPlace(kind, tile) ==
    /\ tile \notin config.placement_rules[kind].forbidden_tiles
    /\ \/ config.placement_rules[kind].allowed_tiles = {}
       \/ tile \in config.placement_rules[kind].allowed_tiles

-----------------------------------------------------------------------------
(* The player's inventory: swap, craft and pick-up (SpecBag) *)

\* Inventory.swap_slots with the 0-based indices of the message: the
\* exchange happens only when both are in range.
swap_slots(slots, index1, index2) ==
    IF 0 <= index1 /\ index1 < MAX_SLOTS /\ 0 <= index2 /\ index2 < MAX_SLOTS
    THEN [slots EXCEPT ![index1 + 1] = slots[index2 + 1],
                       ![index2 + 1] = slots[index1 + 1]]
    ELSE slots

\* Player.can_craft
can_craft(slots, ingredients) ==
    \A item \in DOMAIN ingredients : count_item(slots, item) >= ingredients[item]

RECURSIVE remove_ingredients(_, _, _)
\* The loop of Player.craft over the ingredients still to remove.
remove_ingredients(slots, ingredients, todo) ==
    IF todo = {} THEN slots
    ELSE LET item == CHOOSE i \in todo : TRUE IN
         remove_ingredients(remove_item(slots, item, ingredients[item]).slots,
                            ingredients, todo \ {item})

\* Player.craft: the inventory after, and the value it returns.
craft(slots, ingredients, result, count) ==
    LET a == add_item(remove_ingredients(slots, ingredients, DOMAIN ingredients),
                      result, count)
    IN IF ~can_craft(slots, ingredients) THEN [slots |-> slots, ok |-> FALSE]
       ELSE [slots |-> a.slots, ok |-> a.overflow = 0]

\* InventoryManager.craft_item
craft_item(slots, recipe_name) ==
    IF recipe_name \notin DOMAIN config.assembler_recipes
    THEN [slots |-> slots, ok |-> FALSE]
    ELSE LET recipe == config.assembler_recipes[recipe_name] IN
         craft(slots, recipe.ingredients, recipe.result, recipe.count)

RECURSIVE pickup_items(_, _, _, _, _, _)
\* The loop of pickup_from_ground over the items of one entity: one item at
\* a time into the inventory; at the first that does not fit a chest stops
\* (stop), a conveyor goes on.
pickup_items(slots, items, i, left, picked, stop) ==
    IF i > Len(items) THEN [slots |-> slots, items |-> left, picked |-> picked]
    ELSE LET a == add_item(slots, items[i].item, 1) IN
         IF a.overflow = 0
         THEN pickup_items(a.slots, items, i + 1, left, TRUE, stop)
         ELSE IF stop
         THEN [slots |-> slots, items |-> left \o SubSeq(items, i, Len(items)),
               picked |-> picked]
         ELSE pickup_items(slots, items, i + 1, Append(left, items[i]), picked, stop)

RECURSIVE pickup_from(_, _, _, _, _, _)
\* InventoryManager.pickup_from_ground, over the entities `ids` of the index
\* in their order: the world and the inventory after, and what it returns.
pickup_from(w, slots, x, y, ids, picked) ==
    IF ids = <<>> THEN [w |-> w, slots |-> slots, picked |-> picked]
    ELSE LET e  == w.entities[Head(ids)]
             dx == e.x - x
             dy == e.y - y
             p  == pickup_items(slots, e.data.items, 1, <<>>, picked,
                                e.entity_type = "CHEST")
         IN IF 4 * (dx * dx + dy * dy) > PICKUP_RADIUS_X2 * PICKUP_RADIUS_X2
               \/ e.entity_type \notin {"CONVEYOR", "CHEST"}
            THEN pickup_from(w, slots, x, y, Tail(ids), picked)
            ELSE pickup_from(SetData(w, IndexRef(e.id), [e.data EXCEPT !.items = p.items]),
                             p.slots, x, y, Tail(ids), p.picked)

pickup_from_ground(w, slots, x, y) ==
    pickup_from(w, slots, x, y, Sorted(DOMAIN w.entities), FALSE)

\* GameServer.handle_inventory_action, INV_ACTION_PICKUP without mine
handle_inventory_action_pickup(c, x, y) ==
    /\ Authenticated(c)
    /\ c \in DOMAIN players
    /\ WorldLockFree
    /\ LET p == pickup_from_ground(W, players[c].inventory, x, y) IN
          /\ SetW(p.w)
          /\ players' = [players EXCEPT ![c].inventory = p.slots]
          /\ sent' = IF p.picked THEN <<Msg(c, "INVENTORY_UPDATE", p.slots)>> ELSE <<>>
          /\ last' = Last("pickup", c, IF p.picked THEN 1 ELSE 0)
    /\ UNCHANGED <<locks, twin, config, clients, next_client_id, db_chunks, db_meta, db_players, sim>>

\* GameServer.handle_inventory_action, INV_ACTION_SWAP with both slots given
handle_inventory_action_swap(c, slot1, slot2) ==
    LET slots == swap_slots(players[c].inventory, slot1, slot2) IN
    /\ Authenticated(c)
    /\ c \in DOMAIN players
    /\ players' = [players EXCEPT ![c].inventory = slots]
    /\ sent' = <<Msg(c, "INVENTORY_UPDATE", slots)>>
    /\ last' = Last("swap", c, 1)
    /\ UNCHANGED <<locks, twin, config, tick, next_entity_id, entities, chunks, chunk_order,
                   clients, next_client_id, dirty_entities, db_chunks, db_meta,
                   db_players, sim>>

\* GameServer.handle_inventory_action, INV_ACTION_CRAFT
handle_inventory_action_craft(c, recipe) ==
    LET r == craft_item(players[c].inventory, recipe) IN
    /\ Authenticated(c)
    /\ c \in DOMAIN players
    /\ players' = [players EXCEPT ![c].inventory = r.slots]
    /\ sent' = IF r.ok THEN <<Msg(c, "INVENTORY_UPDATE", r.slots)>> ELSE <<>>
    /\ last' = Last("craft", c, IF r.ok THEN 1 ELSE 0)
    /\ UNCHANGED <<locks, twin, config, tick, next_entity_id, entities, chunks, chunk_order,
                   clients, next_client_id, dirty_entities, db_chunks, db_meta,
                   db_players, sim>>

\* GameServer.handle_inventory_action with an action that has no branch
\* (INV_ACTION_SPLIT, INV_ACTION_SORT): nothing is done.
handle_inventory_action_other(c) ==
    /\ Authenticated(c)
    /\ c \in DOMAIN players
    /\ sent' = <<>>
    /\ last' = Last("inventory_other", c, 0)
    /\ UNCHANGED <<locks, twin, config, tick, next_entity_id, entities, chunks, chunk_order,
                   players, clients, next_client_id, dirty_entities, db_chunks,
                   db_meta, db_players, sim>>

MaxBagEntityId == 1
MaxBagOre == 102
MinBagDrop == 100
MaxBagChest == 1
MaxBagPlates == 2
BagCounts == {-1, 0, 1, MAX_SLOTS * MAX_STACK - 2, MAX_SLOTS * MAX_STACK + 1}
BagSlots == {-1, 0, 1, MAX_SLOTS}
BagItems == {"copper_ore", "iron_plate"}

\* An inventory with every slot a full stack of iron plates, as a player has
\* after taking the plates of the furnaces out MAX_SLOTS * MAX_STACK times.
FullInventory == [i \in 1..MAX_SLOTS |-> [item |-> "iron_plate", count |-> MAX_STACK]]

\* The server with session 1 connected and authenticated, standing on the
\* ore tile with an empty inventory or with a full one.
InitBag ==
    /\ locks = NoLocks
    /\ twin = NoTwin
    /\ config = DefaultCatalog
    /\ tick = 0
    /\ next_entity_id = 1
    /\ entities = <<>>
    /\ chunks = [k \in {<<0, 0>>} |-> NewChunk(0, 0)]
    /\ chunk_order = << <<0, 0>> >>
    /\ \E slots \in {EmptyInventory, FullInventory} :
          players = [c \in {1} |-> [name |-> "a", x |-> 0, y |-> 0, inventory |-> slots]]
    /\ clients = [c \in {1} |-> [authenticated |-> TRUE, player_id |-> 1,
                                subscribed_chunks |-> {}, conn |-> <<>>,
                                buffer |-> <<>>]]
    /\ next_client_id = 1
    /\ dirty_entities = {}
    /\ db_chunks = <<>>
    /\ db_meta = [saved |-> FALSE, tick |-> 0, next_entity_id |-> 1]
    /\ db_players = <<>>
    /\ sent = <<>>
    /\ last = [op |-> "auth", id |-> 1, ret |-> 0, in_tick |-> FALSE]
    /\ sim = [pc |-> "idle", todo |-> <<>>]

\* The items in the chest built in SpecBag, 0 before it is built.
BagChest == IF 1 \in DOMAIN entities THEN Len(entities[1].data.items) ELSE 0

NextBag ==
    \/ count_item(players[1].inventory, "copper_ore") < MaxBagOre
          /\ handle_inventory_action_mine(1, 0, 0)
    \/ \E item \in BagItems, n \in BagCounts :
          (n = 1 => count_item(players[1].inventory, item) \in MinBagDrop..MaxBagOre)
          /\ handle_inventory_action_drop(1, item, n)
    \/ \E slot1, slot2 \in BagSlots : handle_inventory_action_swap(1, slot1, slot2)
    \/ \E recipe \in {"iron_gear", "copper_wire", "steel"} :
          count_item(players[1].inventory, "iron_plate")
             \in 0..MaxBagPlates \cup {MAX_SLOTS * MAX_STACK}
          /\ handle_inventory_action_craft(1, recipe)
    \/ handle_inventory_action_other(1)
    \/ next_entity_id <= MaxBagEntityId
          /\ handle_player_action_build(1, "CHEST", 1, 0, "NORTH")
    \/ \E n \in {-1, MaxBagChest} :
          BagChest < MaxBagChest
          /\ handle_inventory_action_transfer_to(1, 1, "copper_ore", n)
    \/ \E n \in {-1, 1} : handle_inventory_action_transfer_from(1, 1, "copper_ore", n)
    \/ \E x \in {0, 3} : handle_inventory_action_pickup(1, x, 0)

SpecBag == InitBag /\ [][NextBag]_vars

\* C24: after any sequence of adds, drops, swaps, crafts, pick-ups and
\* transfers from the empty inventory, no two slots hold the same item while
\* both are below MAX_STACK.
C24_OneNonFullStackPerItem ==
    \A i, j \in 1..MAX_SLOTS :
        LET slots == players[1].inventory IN
        (i < j /\ slots[i] # NoSlot /\ slots[j] # NoSlot /\ slots[i].item = slots[j].item)
            => (slots[i].count >= MAX_STACK \/ slots[j].count >= MAX_STACK)

\* C25: whatever counts the inventory operations are asked for (zero,
\* negative, far more than is held), the inventory has exactly MAX_SLOTS
\* slots and every slot is empty or holds between 1 and MAX_STACK items.
C25_SlotsWithinBounds ==
    \A c \in DOMAIN players :
        /\ Len(players[c].inventory) = MAX_SLOTS
        /\ \A i \in 1..MAX_SLOTS :
              \/ players[c].inventory[i] = NoSlot
              \/ /\ players[c].inventory[i].item # "none"
                 /\ players[c].inventory[i].count \in 1..MAX_STACK

\* A drop asked for more than the player holds has emptied several stacks
\* and left another operation's items in place.
C25_Witness ==
    /\ last.op = "drop"
    /\ last.ret > MAX_STACK
    /\ last.ret < MAX_SLOTS * MAX_STACK
    /\ Carried(players[1].inventory) > 0

-----------------------------------------------------------------------------
(* Inventory.add_item on its own (SpecAdd) *)

\* Player.pickup_item: add_item on the player's inventory; the step records
\* the count asked for and the overflow returned.
pickup_item(c, item, count) ==
    LET a == add_item(players[c].inventory, item, count) IN
    /\ c \in DOMAIN players
    /\ players' = [players EXCEPT ![c].inventory = a.slots]
    /\ sent' = <<>>
    /\ last' = Last("add", count, a.overflow)
    /\ UNCHANGED <<locks, twin, config, tick, next_entity_id, entities, chunks, chunk_order,
                   clients, next_client_id, dirty_entities, db_chunks, db_meta,
                   db_players, sim>>

MaxAddCarried == 300
AddItems == {"copper_ore", "iron_plate"}
AddCounts == {0, MAX_STACK - 1, MAX_STACK + 50}
AddDrop == MAX_STACK - 1

InitAdd == InitBag

NextAdd ==
    \/ \E n \in AddCounts :
          count_item(players[1].inventory, "copper_ore") <= MaxAddCarried
          /\ pickup_item(1, "copper_ore", n)
    \/ handle_inventory_action_drop(1, "copper_ore", AddDrop)
    \/ count_item(players[1].inventory, "iron_plate") > MAX_SLOTS * MAX_STACK - MaxAddCarried
          /\ handle_inventory_action_drop(1, "iron_plate", AddDrop)
    \/ \E slot2 \in {1, 2} : handle_inventory_action_swap(1, 0, slot2)

SpecAdd == InitAdd /\ [][NextAdd]_vars

\* The slots of an inventory that hold `item`, and its empty slots.
StacksOf(slots, item) == {i \in 1..Len(slots) : slots[i] # NoSlot /\ slots[i].item = item}
EmptySlots(slots) == {i \in 1..Len(slots) : slots[i] = NoSlot}

\* What add(item, n) -> overflow may make of the inventory `before`.
AddedTo(before, after, item, n, overflow) ==
    /\ overflow \in 0..n
    /\ Len(after) = Len(before)
    /\ count_item(after, item) = count_item(before, item) + n - overflow
    /\ \A i \in 1..Len(before) :
          /\ (before[i] # NoSlot /\ before[i].item # item) => after[i] = before[i]
          /\ i \in StacksOf(before, item)
                => i \in StacksOf(after, item) /\ after[i].count >= before[i].count
          /\ i \in EmptySlots(before) => i \in EmptySlots(after) \cup StacksOf(after, item)
    \* stacks are topped up in slot order, and before any slot is opened
    /\ \A i \in StacksOf(before, item) :
          after[i].count < MAX_STACK
             => /\ \A j \in StacksOf(before, item) : j > i => after[j] = before[j]
                /\ EmptySlots(after) = EmptySlots(before)
    \* empty slots are opened in slot order, each filled before the next
    /\ \A i \in EmptySlots(before) :
          (i \in EmptySlots(after) \/ after[i].count < MAX_STACK)
             => \A j \in EmptySlots(before) : j > i => j \in EmptySlots(after)
    /\ overflow > 0
          => /\ EmptySlots(after) = {}
             /\ \A i \in StacksOf(after, item) : after[i].count = MAX_STACK

\* C26: add(item, n) with n >= 0 tops up the stacks of the item in slot
\* order, then opens empty slots in slot order, and returns as overflow what
\* did not fit: the item's total grows by n - overflow, an overflow above 0
\* leaves no slot empty and no stack of the item below MAX_STACK, and the
\* other items are untouched.
C26_AddFillsThenOpens ==
    [][last'.op = "add"
          => \E item \in AddItems :
                AddedTo(players[1].inventory, players'[1].inventory, item,
                        last'.id, last'.ret)]_vars

\* An add has topped up two stacks of the item and opened a slot; another
\* has overflowed.
C26_Witness ==
    /\ last.op = "add"
    /\ last.id = MAX_STACK + 50
    /\ last.ret > 0
    /\ \E i, j \in StacksOf(players[1].inventory, "copper_ore") :
          i < j /\ \E k \in StacksOf(players[1].inventory, "iron_plate") : k < i

\* The steps that handle an INVENTORY_ACTION.
InventoryOps == {"mine", "pickup", "drop", "transfer_to", "transfer_from", "swap",
                 "craft", "inventory_other"}

\* C27: whenever handling an INVENTORY_ACTION changes the player's
\* inventory, an INVENTORY_UPDATE with the resulting inventory is sent to
\* that player's session.
C27_InventoryChangeIsSent ==
    [][(last'.op \in InventoryOps /\ players'[1].inventory # players[1].inventory)
          => \E i \in 1..Len(sent') :
                sent'[i] = Msg(1, "INVENTORY_UPDATE", players'[1].inventory)]_vars

-----------------------------------------------------------------------------
(* More properties of the machines (SpecSim) *)

\* A miner, an inserter and a sink in a line, ticking long enough for the
\* sink to fill up (SpecArm).
MaxArmEntityId == 3
MaxArmTick == 12
ArmBuilds == {<<"MINER", 0>>, <<"INSERTER", 1>>, <<"CHEST", 2>>, <<"ASSEMBLER", 2>>}

InitArm == InitServer(SmallCatalog)

NextArm ==
    \/ next_client_id < 1 /\ accept_connections
    \/ ~Authenticated(1) /\ handle_auth(1, "a")
    \/ \E b \in ArmBuilds :
          next_entity_id <= MaxArmEntityId
          /\ handle_player_action_build(1, b[1], b[2], 0, "EAST")
    \/ \E id \in 1..MaxArmEntityId : handle_player_action_destroy(1, id)
    \/ tick < MaxArmTick /\ world_loop

SpecArm == InitArm /\ [][NextArm]_vars

\* What the update of the empty-handed inserter r in world w may do: it
\* takes an item only with a source and a destination that has room, and
\* with a destination that has none it takes nothing and leaves the buffers
\* of both as they were.
EmptyHandedUpdate(w, r, w2) ==
    LET e      == Obj(w, r)
        source == Neighbour(w, e, -1)
        dest   == Neighbour(w, e, 1)
    IN /\ Obj(w2, r).data.held_item # NoItem
          => /\ source # 0
             /\ dest # 0
             /\ can_insert_into(w, dest)
             /\ extract_item_from(w, source).item = Obj(w2, r).data.held_item
             /\ w2.entities[source].data = extract_item_from(w, source).w.entities[source].data
       /\ (dest # 0 /\ ~can_insert_into(w, dest))
          => /\ Obj(w2, r).data.held_item = NoItem
             /\ w2.entities[dest].data = w.entities[dest].data
             /\ source # 0 => w2.entities[source].data = w.entities[source].data

\* C28: an inserter that holds nothing takes an item from its source only
\* when source and destination exist and the destination has room; with a
\* full destination it never sets held_item and changes the items of neither.
C28_InserterAsksDestinationFirst ==
    \A i \in 1..Len(TickRefs) :
        LET w == WorldBefore(i)
            r == TickRefs[i]
        IN (Obj(w, r).entity_type = "INSERTER" /\ Obj(w, r).data.held_item = NoItem)
              => EmptyHandedUpdate(w, r, update_inserter(w, r))

\* An inserter with an empty hand and no cooldown stands between a source
\* that has an item ready and a destination that is full.
C28_Witness ==
    \E id \in DOMAIN entities :
        LET e      == entities[id]
            source == Neighbour(W, e, -1)
            dest   == Neighbour(W, e, 1)
        IN /\ e.entity_type = "INSERTER"
           /\ e.data.held_item = NoItem
           /\ e.data.cooldown = 0
           /\ source # 0
           /\ dest # 0
           /\ extract_item_from(W, source).item # NoItem
           /\ ~can_insert_into(W, dest)
           /\ entities[dest].entity_type = "CHEST"

-----------------------------------------------------------------------------
(* The assembler (SpecAsm): one session mines ore, crafts dust by hand, puts *)
(* both into an assembler that faces a chest, and the world ticks.           *)

MaxAsmEntityId == 2
MaxAsmTick == 3
MaxAsmItems == 3
AsmItems == {"copper_ore", "copper_dust"}
AsmBuilds == {<<"ASSEMBLER", 1>>, <<"CHEST", 2>>}

\* The items the player and the machines hold.
AsmHeld ==
    Carried(players[1].inventory) + ItemsIn(W, "copper_ore") + ItemsIn(W, "copper_dust")

InitAsm == InitServer(SmallCatalog)

NextAsm ==
    \/ next_client_id < 1 /\ accept_connections
    \/ ~Authenticated(1) /\ handle_auth(1, "a")
    \/ Authenticated(1) /\ AsmHeld < MaxAsmItems /\ handle_inventory_action_mine(1, 0, 0)
    \/ Authenticated(1) /\ AsmHeld < MaxAsmItems
          /\ handle_inventory_action_craft(1, "copper_dust")
    \/ \E b \in AsmBuilds :
          next_entity_id <= MaxAsmEntityId
          /\ handle_player_action_build(1, b[1], b[2], 0, "EAST")
    \/ \E id \in 1..MaxAsmEntityId, recipe \in {"copper_dust", "iron_gear"} :
          handle_player_action_configure(1, id, recipe)
    \/ \E id \in 1..MaxAsmEntityId, item \in AsmItems :
          handle_inventory_action_transfer_to(1, id, item, 1)
    \/ tick < MaxAsmTick /\ world_loop

SpecAsm == InitAsm /\ [][NextAsm]_vars

RECURSIVE IsSubSeq(_, _)
\* a is b with some of its elements left out.
IsSubSeq(a, b) ==
    IF a = <<>> THEN TRUE
    ELSE IF b = <<>> THEN FALSE
    ELSE IF Head(a) = Head(b) THEN IsSubSeq(Tail(a), Tail(b))
    ELSE IsSubSeq(a, Tail(b))

\* What the update of the assembler r in world w may do when it crafts
\* (its input changes): w2 is the world after the update.
AssemblerCraft(w, r, w2) ==
    LET e       == Obj(w, r)
        d       == e.data
        d2      == Obj(w2, r).data
        target  == Neighbour(w, e, 1)
        ejected == target # 0 /\ w2.entities[target].data # w.entities[target].data
        kept    == IF ejected THEN Tail(d.output) ELSE d.output
    IN d2.input # d.input
          => /\ d.recipe \in DOMAIN config.assembler_recipes
             /\ d.cooldown = 0
             /\ Len(kept) < Cfg("ASSEMBLER").output_buffer_size
             /\ LET recipe == config.assembler_recipes[d.recipe] IN
                   /\ \A g \in DOMAIN recipe.ingredients :
                         CountItem(d.input, g) >= recipe.ingredients[g]
                   /\ \A name \in AsmItems \cup DOMAIN recipe.ingredients :
                         CountItem(d2.input, name)
                            = CountItem(d.input, name)
                              - (IF name \in DOMAIN recipe.ingredients
                                 THEN recipe.ingredients[name] ELSE 0)
                   /\ IsSubSeq(d2.input, d.input)
                   /\ d2.output = kept \o Copies(recipe.result, recipe.count)
                   /\ d2.cooldown = recipe.time

\* C29: an assembler crafts in a tick only with a recipe configured, its
\* cooldown at zero, room in its output and every ingredient in its input
\* in the required count; it then removes exactly those ingredients, keeps
\* the other input items in their order, appends recipe.count results to
\* the output and sets the cooldown to recipe.time.
C29_AssemblerCraft ==
    \A i \in 1..Len(TickRefs) :
        LET w == WorldBefore(i)
            r == TickRefs[i]
        IN Obj(w, r).entity_type = "ASSEMBLER"
              => AssemblerCraft(w, r, update_assembler(w, r))

\* A tick has just crafted: the assembler took the ore of its input, kept
\* the dust that lay there too, and holds the two dusts it made.
C29_Witness ==
    /\ last.op = "tick"
    /\ \E id \in DOMAIN entities :
          /\ entities[id].entity_type = "ASSEMBLER"
          /\ entities[id].data.input = <<Item("copper_dust")>>
          /\ entities[id].data.output = Copies("copper_dust", 2)
          /\ entities[id].data.cooldown = config.assembler_recipes["copper_dust"].time

\* The entity `target` of world w takes an item pushed to it by a machine.
Accepts(w, target) ==
    /\ target # 0
    /\ w.entities[target].entity_type \in {"CONVEYOR", "CHEST"}
    /\ Len(w.entities[target].data.items)
          < Cfg(w.entities[target].entity_type).buffer_size

\* What the update of the assembler r in world w must do with a non-empty
\* output and a downstream entity that accepts: hand over the head.
AssemblerEject(w, r, w2) ==
    LET e      == Obj(w, r)
        target == Neighbour(w, e, 1)
    IN (e.data.output # <<>> /\ Accepts(w, target))
          => /\ Len(w2.entities[target].data.items)
                   = Len(w.entities[target].data.items) + 1
             /\ w2.entities[target].data.items[Len(w2.entities[target].data.items)].item
                   = e.data.output[1].item
             /\ SubSeq(Obj(w2, r).data.output, 1, Len(e.data.output) - 1)
                   = Tail(e.data.output)

\* C30: in every tick in which an assembler's output is non-empty and the
\* entity on its downstream tile accepts an item, the assembler ejects the
\* head of its output to it, also while its cooldown is counting down.
C30_AssemblerEjectsEveryTick ==
    \A i \in 1..Len(TickRefs) :
        LET w == WorldBefore(i)
            r == TickRefs[i]
        IN Obj(w, r).entity_type = "ASSEMBLER"
              => AssemblerEject(w, r, update_assembler(w, r))

-----------------------------------------------------------------------------
(* Entity ids (Spec) *)

\* The ids of the entities the world holds, in the index or in a loaded
\* chunk, and of those written in the chunk table of the database.
HeldIds == {e.id : e \in HeldEntities}
PersistedIds ==
    UNION {{db_chunks[k].entities[i].id : i \in 1..Len(db_chunks[k].entities)} :
              k \in DOMAIN db_chunks}

\* C31: every entity created by BUILD receives the id next_entity_id, which
\* is above the id of every entity the world holds or has persisted (those
\* loaded from saved chunks after a restart included) and above every id
\* given before in the process, for next_entity_id never decreases while
\* the process runs.
C31_FreshIncreasingIds ==
    [][/\ last'.op # "restart" => next_entity_id' >= next_entity_id
       /\ \A id \in HeldIds \cup PersistedIds : id < next_entity_id
       /\ \A id \in DOMAIN entities' \ DOMAIN entities :
             /\ last'.op = "build"
             /\ id = next_entity_id
             /\ next_entity_id' = id + 1
             /\ DOMAIN entities' = DOMAIN entities \cup {id}]_vars

\* After a restart a chunk loaded from the database holds an entity, and a
\* BUILD has just created another one with a greater id.
C31_Witness ==
    /\ last.op = "build"
    /\ last.ret # 0
    /\ \E k \in DOMAIN chunks : \E id \in DOMAIN chunks[k].copies : id < last.ret

-----------------------------------------------------------------------------
(* Two runs of the server (SpecTwin): both start from the same empty world,  *)
(* receive the same BUILD and CHUNK_REQUEST messages between the same ticks, *)
(* and tick together. Only the periodic flush of network_loop, which goes by *)
(* the wall clock, happens in each run at a time of its own. The first run   *)
(* is held by the variables of the server, the second by `twin`: its world   *)
(* and the chunk table of its database.                                      *)

MaxTwinEntityId == 2
MaxTwinTick == 3
TwinBuilds == {<<"MINER", 0>>, <<"CHEST", 1>>}

\* The world after handle_player_action with ACTION_BUILD.
player_action_build(w, entity_type, x, y, direction) ==
    LET k  == world_to_chunk(x, y)
        w1 == get_chunk(w, k[1], k[2])
    IN IF (entity_type \in DOMAIN config.entities_by_name
              => can_place_entity(entity_type, chunk_get_tile(w1.chunks[k], x, y)))
          /\ get_entity_at(w1, x, y) = 0
       THEN create_entity(w1, entity_type, x, y, direction)
       ELSE w1

InitTwin ==
    /\ config = SmallCatalog
    /\ tick = 0
    /\ next_entity_id = 1
    /\ entities = <<>>
    /\ chunks = <<>>
    /\ chunk_order = <<>>
    /\ players = [c \in {1} |-> [name |-> "a", x |-> 0, y |-> 0, inventory |-> EmptyInventory]]
    /\ clients = [c \in {1} |-> [authenticated |-> TRUE, player_id |-> 1,
                                subscribed_chunks |-> {}, conn |-> <<>>,
                                buffer |-> <<>>]]
    /\ next_client_id = 1
    /\ dirty_entities = {}
    /\ db_chunks = <<>>
    /\ db_meta = [saved |-> FALSE, tick |-> 0, next_entity_id |-> 1]
    /\ db_players = <<>>
    /\ sent = <<>>
    /\ last = [op |-> "auth", id |-> 1, ret |-> 0, in_tick |-> FALSE]
    /\ sim = [pc |-> "idle", todo |-> <<>>]
    /\ locks = NoLocks
    /\ twin = [w |-> [entities |-> <<>>, chunks |-> <<>>, chunk_order |-> <<>>,
                      next_entity_id |-> 1, dirty_entities |-> {}, tick |-> 0],
               db |-> <<>>]

\* Both runs handle the same BUILD.
twin_build(entity_type, x, y, direction) ==
    /\ SetW(player_action_build(W, entity_type, x, y, direction))
    /\ twin' = [twin EXCEPT !.w = player_action_build(@, entity_type, x, y, direction)]
    /\ sent' = <<>>
    /\ last' = Last("twin_build", 1, 0)
    /\ UNCHANGED <<locks, config, players, clients, next_client_id, db_chunks, db_meta,
                   db_players, sim>>

\* Both runs handle the same CHUNK_REQUEST.
twin_chunk_request(cx, cy) ==
    /\ SetW(load_or_get_chunk_from(db_chunks, W, <<cx, cy>>))
    /\ twin' = [twin EXCEPT !.w = load_or_get_chunk_from(twin.db, @, <<cx, cy>>)]
    /\ sent' = <<>>
    /\ last' = Last("twin_chunk_request", 1, 0)
    /\ UNCHANGED <<locks, config, players, clients, next_client_id, db_chunks, db_meta,
                   db_players, sim>>

\* Both runs tick.
twin_tick ==
    /\ SetW(simulation_tick(W))
    /\ twin' = [twin EXCEPT !.w = simulation_tick(@)]
    /\ sent' = <<>>
    /\ last' = Last("twin_tick", 0, 0)
    /\ UNCHANGED <<locks, config, players, clients, next_client_id, db_chunks, db_meta,
                   db_players, sim>>

\* The periodic flush in the second run: save_all_dirty_chunks.
twin_save_world ==
    LET s == save_chunks(twin.w, twin.db, twin.w.chunk_order) IN
    /\ twin' = [w |-> s.w, db |-> s.db]
    /\ sent' = <<>>
    /\ last' = Last("twin_save", 0, 0)
    /\ UNCHANGED <<locks, config, tick, next_entity_id, entities, chunks, chunk_order,
                   players, clients, next_client_id, dirty_entities, db_chunks,
                   db_meta, db_players, sim>>

NextTwin ==
    \/ \E b \in TwinBuilds :
          next_entity_id <= MaxTwinEntityId /\ twin_build(b[1], b[2], 0, "EAST")
    \/ twin_chunk_request(0, 0)
    \/ tick < MaxTwinTick /\ twin_tick
    \/ save_world
    \/ twin_save_world

SpecTwin == InitTwin /\ [][NextTwin]_vars

\* What the claim compares of a world: the tick counter, the entities of
\* the index with their buffers, cooldown, held item and progress, and the
\* dirty set.
WorldState(w) == [tick |-> w.tick, entities |-> w.entities, dirty |-> w.dirty_entities]

\* C32: two runs that start from identical worlds and receive the same
\* actions between the same ticks are in identical states after every tick.
C32_TickDeterminism ==
    last.op = "twin_tick" => WorldState(W) = WorldState(twin.w)

-----------------------------------------------------------------------------
(* Production lines with the default catalog (SpecMine, SpecSmelt) *)

\* A server with the default catalog, one authenticated session, chunk (0, 0)
\* in memory with the tiles `tiles` laid over the generated ones, and the
\* player carrying `slots`.
InitLine(tiles, slots) ==
    /\ locks = NoLocks
    /\ twin = NoTwin
    /\ config = DefaultCatalog
    /\ tick = 0
    /\ next_entity_id = 1
    /\ entities = <<>>
    /\ chunks = [k \in {<<0, 0>>} |->
                    [NewChunk(0, 0) EXCEPT !.tiles =
                        [t \in DOMAIN @ \cup DOMAIN tiles |->
                            IF t \in DOMAIN tiles THEN tiles[t] ELSE @[t]]]]
    /\ chunk_order = << <<0, 0>> >>
    /\ players = [c \in {1} |-> [name |-> "a", x |-> 0, y |-> 0, inventory |-> slots]]
    /\ clients = [c \in {1} |-> [authenticated |-> TRUE, player_id |-> 1,
                                subscribed_chunks |-> {}, conn |-> <<>>,
                                buffer |-> <<>>]]
    /\ next_client_id = 1
    /\ dirty_entities = {}
    /\ db_chunks = <<>>
    /\ db_meta = [saved |-> FALSE, tick |-> 0, next_entity_id |-> 1]
    /\ db_players = <<>>
    /\ sent = <<>>
    /\ last = [op |-> "auth", id |-> 1, ret |-> 0, in_tick |-> FALSE]
    /\ sim = [pc |-> "idle", todo |-> <<>>]

\* The mining chain: an iron-ore tile at (5, 5); the session builds a miner
\* on it, a conveyor at (6, 5) and a chest at (7, 5), in that order, and the
\* world then ticks.
MaxMineTick == 600
MineTiles == [t \in {<<5, 5>>} |-> "IRON_ORE"]

InitMine == InitLine(MineTiles, EmptyInventory)

NextMine ==
    \/ next_entity_id = 1 /\ handle_player_action_build(1, "MINER", 5, 5, "EAST")
    \/ next_entity_id = 2 /\ handle_player_action_build(1, "CONVEYOR", 6, 5, "EAST")
    \/ next_entity_id = 3 /\ handle_player_action_build(1, "CHEST", 7, 5, "NORTH")
    \/ next_entity_id = 4 /\ tick < MaxMineTick /\ world_loop

SpecMine == InitMine /\ [][NextMine]_vars

\* What the chain holds once it is built: the miner's output, the conveyor's
\* items and the chest's items. Nothing leaves the chain, so their sum is
\* what the miner has extracted.
MineOutput == Len(entities[1].data.output)
MineBelt == Len(entities[2].data.items)
MineChest == Len(entities[3].data.items)

\* C33: after exactly 600 ticks of the mining chain the miner has extracted
\* exactly 10 items and the chest holds exactly 9 of them.
C33_MiningChain ==
    (next_entity_id = 4 /\ tick = 600) =>
        /\ MineOutput + MineBelt + MineChest = 10
        /\ MineChest = 9

\* C33 as amended: after 600 ticks the miner has extracted exactly 10 items
\* and the chest holds all 10; the tenth enters the chest in tick 600, after
\* 599 ticks the chest holds 9 and the tenth is on the conveyor.
C33_MiningChainAmended ==
    /\ (next_entity_id = 4 /\ tick = 599) =>
          MineOutput = 0 /\ MineBelt = 1 /\ MineChest = 9
    /\ (next_entity_id = 4 /\ tick = 600) =>
          MineOutput = 0 /\ MineBelt = 0 /\ MineChest = 10

C33_Witness ==
    /\ next_entity_id = 4
    /\ tick = 600
    /\ MineChest = 10
    /\ entities[1].data.cooldown = 10

\* Smelting: grass at (0, 0); the session, carrying two iron_ore, builds a
\* furnace at (0, 0) facing East and a chest at (1, 0), puts the ore into the
\* furnace by TRANSFER_TO, in one message or in two, and the world then ticks.
MaxSmeltTick == 250
SmeltTiles == [t \in {<<0, 0>>} |-> "GRASS"]
SmeltCounts == {1, 2}

InitSmelt == InitLine(SmeltTiles, add_item(EmptyInventory, "iron_ore", 2).slots)

NextSmelt ==
    \/ next_entity_id = 1 /\ handle_player_action_build(1, "FURNACE", 0, 0, "EAST")
    \/ next_entity_id = 2 /\ handle_player_action_build(1, "CHEST", 1, 0, "NORTH")
    \/ \E n \in SmeltCounts :
          /\ next_entity_id = 3
          /\ count_item(players[1].inventory, "iron_ore") > 0
          /\ handle_inventory_action_transfer_to(1, 1, "iron_ore", n)
    \/ /\ next_entity_id = 3
       /\ count_item(players[1].inventory, "iron_ore") = 0
       /\ tick < MaxSmeltTick
       /\ world_loop

SpecSmelt == InitSmelt /\ [][NextSmelt]_vars

\* The furnace smelts in this step: its input gets shorter.
Smelts == 1 \in DOMAIN entities /\ Len(entities'[1].data.input) < Len(entities[1].data.input)

\* C34: after 250 ticks the furnace input and output are empty and the chest
\* holds exactly two iron_plate; the second smelting comes at least the
\* recipe time of 120 ticks after the first, which is in the first tick.
C34_Smelting ==
    [][/\ tick' = 250 =>
             /\ entities'[1].data.input = <<>>
             /\ entities'[1].data.output = <<>>
             /\ entities'[2].data.items = <<Item("iron_plate"), Item("iron_plate")>>
       /\ Smelts =>
             /\ last'.op = "tick"
             /\ IF Len(entities[1].data.input) = 2 THEN tick' = 1
                ELSE tick' >= 1 + 120]_vars

C34_Witness ==
    /\ tick = 250
    /\ entities[1].data.input = <<>>
    /\ entities[1].data.cooldown = 0
    /\ Len(entities[2].data.items) = 2

-----------------------------------------------------------------------------
(* Tile generation across server processes (SpecGen) *)

MaxGenEntityId == 1
HashSeeds == {0, 1, 2}
GenTiles == {<<0, 0>>, <<1, 0>>}

\* The process stops and a new one starts on the same database, with the
\* string-hash seed `hashseed`.
restart_process(hashseed) ==
    /\ config' = [config EXCEPT !.hashseed = hashseed]
    /\ tick' = IF db_meta.saved THEN db_meta.tick ELSE 0
    /\ next_entity_id' = IF db_meta.saved THEN db_meta.next_entity_id ELSE 1
    /\ entities' = <<>>
    /\ chunks' = <<>>
    /\ chunk_order' = <<>>
    /\ players' = <<>>
    /\ clients' = <<>>
    /\ next_client_id' = 0
    /\ dirty_entities' = {}
    /\ sim' = [pc |-> "idle", todo |-> <<>>]
    /\ sent' = <<>>
    /\ last' = [op |-> "restart", id |-> hashseed, ret |-> 0, in_tick |-> FALSE]
    /\ UNCHANGED <<locks, twin, db_chunks, db_meta, db_players>>

InitGen == InitServer(SmallCatalog)

NextGen ==
    \/ next_client_id < 1 /\ accept_connections
    \/ handle_auth(1, "a")
    \/ \E cx \in {-1, 0, 1} : handle_chunk_request(1, cx, 0)
    \/ \E p \in GenTiles :
          next_entity_id <= MaxGenEntityId
          /\ handle_player_action_build(1, "MINER", p[1], p[2], "EAST")
    \/ save_world
    \/ \E h \in HashSeeds : restart_process(h)

SpecGen == InitGen /\ [][NextGen]_vars

\* World.get_tile on the tile t.
TileAt(t) == get_tile(W, t[1], t[2])

\* C35: get_tile(x, y) returns the same kind every time it is called, in
\* this server process and in the next one, whatever chunks were generated,
\* saved or reloaded in between.
C35_TileGenerationIsPure ==
    [][\A t \in ModelTiles : TileAt(t)' = TileAt(t)]_vars

-----------------------------------------------------------------------------
(* Crafting by hand (SpecBag) *)

\* The items a craft of SpecBag can touch.
CraftNames == {"copper_ore", "iron_plate", "copper_plate", "iron_gear", "copper_wire"}

\* `after` is `before` less the ingredients of the recipe and plus all its
\* results.
CraftedExactly(before, after, recipe) ==
    \A item \in CraftNames :
        count_item(after, item) =
            count_item(before, item)
            - (IF item \in DOMAIN recipe.ingredients THEN recipe.ingredients[item] ELSE 0)
            + (IF item = recipe.result THEN recipe.count ELSE 0)

\* C36: CRAFT either removes exactly the recipe's ingredients, adds all its
\* results and reports success, or leaves the inventory unchanged and
\* reports failure.
C36_CraftAllOrNothing ==
    [][last'.op = "craft" =>
          \/ /\ last'.ret = 0
             /\ players'[1].inventory = players[1].inventory
          \/ /\ last'.ret = 1
             /\ \E name \in DOMAIN config.assembler_recipes :
                   CraftedExactly(players[1].inventory, players'[1].inventory,
                                  config.assembler_recipes[name])]_vars

-----------------------------------------------------------------------------
(* The chunk table between the two threads (SpecRace): the tick in steps as  *)
(* in SpecThreads, with the flush and the restart that put chunks into the   *)
(* database.                                                                 *)

MaxRaceEntityId == 1
MaxRaceTick == 2
RaceBuilds == {<<"MINER", 0>>, <<"CHEST", 1>>}

InitRace == InitServer(SmallCatalog)

NextRace ==
    \/ next_client_id < 1 /\ accept_connections
    \/ ~Authenticated(1) /\ handle_auth(1, "a")
    \/ handle_player_move(1, 0, 0)
    \/ handle_chunk_request(1, 0, 0)
    \/ \E b \in RaceBuilds :
          next_entity_id <= MaxRaceEntityId
          /\ handle_player_action_build(1, b[1], b[2], 0, "EAST")
    \/ save_world
    \/ sim.pc = "idle" /\ restart
    \/ tick < MaxRaceTick /\ tick_begin
    \/ tick_step
    \/ tick_end

SpecRace == InitRace /\ [][NextRace]_vars

\* C37: while the simulation thread is inside a tick, no CHUNK_REQUEST and
\* no MOVE of the network thread inserts or replaces a chunk of the world's
\* chunk table.
C37_ChunkTableUnderWorldLock ==
    [][(sim.pc = "tick" /\ last'.op \in {"chunk_request", "move"})
          => chunks' = chunks /\ chunk_order' = chunk_order]_vars

-----------------------------------------------------------------------------
(* The two locks and the three threads (SpecLocks). `locks` holds the        *)
(* session lock (GameServer.lock) and the world lock (World.lock), both      *)
(* re-entrant, and where each thread is: the accept thread                   *)
(* (accept_connections), the network thread (network_loop) and the           *)
(* simulation thread (world_loop). `msgs` counts the messages the network    *)
(* thread still has to handle in this pass of receive_from_clients.          *)

MaxLockMsgs == 2
LockThreads == {"accept", "net", "sim"}

\* RLock.acquire by thread t: possible when nobody else holds the lock.
CanAcquire(lock, t) == lock.owner \in {"none", t}
Acquire(lock, t) == [owner |-> t, depth |-> lock.depth + 1]
\* RLock.release
Release(lock) == IF lock.depth = 1 THEN Unlocked ELSE [lock EXCEPT !.depth = @ - 1]

\* A step of a thread: only the locks and the thread's position change.
LockStep(op, l) ==
    /\ locks' = l
    /\ sent' = <<>>
    /\ last' = Last(op, 0, 0)
    /\ UNCHANGED <<twin, config, tick, next_entity_id, entities, chunks, chunk_order,
                   players, clients, next_client_id, dirty_entities, db_chunks,
                   db_meta, db_players, sim>>

\* accept_connections: server.accept returns a connection.
accept_connection ==
    /\ locks.pc.accept = "accept"
    /\ LockStep("accept_connection", [locks EXCEPT !.pc.accept = "lock"])

\* accept_connections: `with self.lock`.
accept_lock ==
    /\ locks.pc.accept = "lock"
    /\ CanAcquire(locks.session, "accept")
    /\ LockStep("accept_lock", [locks EXCEPT !.session = Acquire(@, "accept"),
                                             !.pc.accept = "register"])

\* accept_connections: the client is registered and the lock released.
accept_unlock ==
    /\ locks.pc.accept = "register"
    /\ LockStep("accept_unlock", [locks EXCEPT !.session = Release(@),
                                               !.pc.accept = "accept"])

\* network_loop calls receive_from_clients.
net_receive ==
    /\ locks.pc.net = "sleep"
    /\ LockStep("net_receive", [locks EXCEPT !.pc.net = "lock"])

\* receive_from_clients: `with self.lock`, then n messages are read.
net_lock(n) ==
    /\ locks.pc.net = "lock"
    /\ CanAcquire(locks.session, "net")
    /\ LockStep("net_lock", [locks EXCEPT !.session = Acquire(@, "net"),
                                          !.pc.net = "poll", !.msgs = n])

\* handle_message of a message whose handler takes no lock of its own
\* (an INVENTORY_ACTION, a CHUNK_REQUEST of a chunk that is in the database).
net_handle_plain ==
    /\ locks.pc.net = "poll"
    /\ locks.msgs > 0
    /\ LockStep("net_handle_plain", [locks EXCEPT !.msgs = @ - 1])

\* A handler enters `with self.lock` again (handle_auth, handle_chunk_request,
\* update_chunk_subscriptions, broadcast_to_chunk_subscribers,
\* disconnect_client).
net_handle_session ==
    /\ locks.pc.net = "poll"
    /\ locks.msgs > 0
    /\ LockStep("net_handle_session", [locks EXCEPT !.session = Acquire(@, "net"),
                                                    !.pc.net = "nested"])

\* A handler calls a method of World that takes world.lock (add_player,
\* move_player, get_chunk, create_entity, remove_entity, get_entity_at), from
\* inside the nested `with self.lock` or not.
net_want_world ==
    /\ locks.pc.net \in {"poll", "nested"}
    /\ locks.msgs > 0
    /\ LockStep("net_want_world", [locks EXCEPT !.pc.net = "want_world"])

net_world_lock ==
    /\ locks.pc.net = "want_world"
    /\ CanAcquire(locks.world, "net")
    /\ LockStep("net_world_lock", [locks EXCEPT !.world = Acquire(@, "net"),
                                                !.pc.net = "in_world"])

\* The method of World returns.
net_world_unlock ==
    /\ locks.pc.net = "in_world"
    /\ LockStep("net_world_unlock",
                [locks EXCEPT !.world = Release(@),
                              !.pc.net = IF locks.session.depth > 1 THEN "nested"
                                         ELSE "poll",
                              !.msgs = IF locks.session.depth > 1 THEN @ ELSE @ - 1])

\* The handler leaves its `with self.lock`.
net_nested_unlock ==
    /\ locks.pc.net = "nested"
    /\ LockStep("net_nested_unlock", [locks EXCEPT !.session = Release(@),
                                                   !.pc.net = "poll", !.msgs = @ - 1])

\* receive_from_clients returns; network_loop saves the world when the
\* thirty seconds are over (save), or sleeps.
net_unlock(save) ==
    /\ locks.pc.net = "poll"
    /\ locks.msgs = 0
    /\ LockStep("net_unlock", [locks EXCEPT !.session = Release(@),
                                            !.pc.net = IF save THEN "save" ELSE "sleep"])

\* save_world: save_all_dirty_chunks, `with world.lock`.
net_save_lock ==
    /\ locks.pc.net = "save"
    /\ CanAcquire(locks.world, "net")
    /\ LockStep("net_save_lock", [locks EXCEPT !.world = Acquire(@, "net"),
                                               !.pc.net = "saving"])

net_save_unlock ==
    /\ locks.pc.net = "saving"
    /\ LockStep("net_save_unlock", [locks EXCEPT !.world = Release(@),
                                                 !.pc.net = "sleep"])

\* world_loop calls Simulation.tick.
sim_tick ==
    /\ locks.pc.sim = "sleep"
    /\ LockStep("sim_tick", [locks EXCEPT !.pc.sim = "want_world"])

\* Simulation.tick: `with self.world.lock`.
sim_lock ==
    /\ locks.pc.sim = "want_world"
    /\ CanAcquire(locks.world, "sim")
    /\ LockStep("sim_lock", [locks EXCEPT !.world = Acquire(@, "sim"),
                                          !.pc.sim = "ticking"])

\* update_entity calls World.get_entity_at or get_tile, which take world.lock
\* again.
sim_lookup ==
    /\ locks.pc.sim = "ticking"
    /\ LockStep("sim_lookup", [locks EXCEPT !.world = Acquire(@, "sim"),
                                            !.pc.sim = "lookup"])

sim_lookup_done ==
    /\ locks.pc.sim = "lookup"
    /\ LockStep("sim_lookup_done", [locks EXCEPT !.world = Release(@),
                                                 !.pc.sim = "ticking"])

\* A tick that broadcasts its updates before it leaves `with world.lock`.
sim_broadcast_in_tick(dirty) ==
    /\ locks.pc.sim = "ticking"
    /\ LockStep("sim_unlock", [locks EXCEPT !.pc.sim = IF dirty THEN "want_session"
                                                       ELSE "ticking"])

\* Simulation.tick returns, world.lock is released; world_loop then
\* broadcasts the dirty entities, if there are any.
sim_unlock(dirty) ==
    /\ locks.pc.sim = "ticking"
    /\ LockStep("sim_unlock", [locks EXCEPT !.world = Release(@),
                                            !.pc.sim = IF dirty THEN "want_session"
                                                       ELSE "sleep"])

\* broadcast_to_chunk_subscribers: `with self.lock`.
sim_session_lock ==
    /\ locks.pc.sim = "want_session"
    /\ CanAcquire(locks.session, "sim")
    /\ LockStep("sim_session_lock", [locks EXCEPT !.session = Acquire(@, "sim"),
                                                  !.pc.sim = "sending"])

\* send_to fails and calls disconnect_client: `with self.lock` again, the
\* player saved and removed without world.lock.
sim_disconnect ==
    /\ locks.pc.sim = "sending"
    /\ LockStep("sim_disconnect", [locks EXCEPT !.session = Acquire(@, "sim"),
                                                !.pc.sim = "disconnecting"])

sim_disconnect_done ==
    /\ locks.pc.sim = "disconnecting"
    /\ LockStep("sim_disconnect_done", [locks EXCEPT !.session = Release(@),
                                                     !.pc.sim = "sending"])

\* broadcast_to_chunk_subscribers returns; the next dirty entity (more), or
\* the end of the broadcast.
sim_session_unlock(more) ==
    /\ locks.pc.sim = "sending"
    /\ LockStep("sim_session_unlock",
                [locks EXCEPT !.session = Release(@),
                              !.pc.sim = IF more THEN "want_session" ELSE "sleep"])

InitLocks == InitServer(SmallCatalog)

NextLocks ==
    \/ accept_connection
    \/ accept_lock
    \/ accept_unlock
    \/ net_receive
    \/ \E n \in 0..MaxLockMsgs : net_lock(n)
    \/ net_handle_plain
    \/ net_handle_session
    \/ net_want_world
    \/ net_world_lock
    \/ net_world_unlock
    \/ net_nested_unlock
    \/ \E save \in BOOLEAN : net_unlock(save)
    \/ net_save_lock
    \/ net_save_unlock
    \/ sim_tick
    \/ sim_lock
    \/ sim_lookup
    \/ sim_lookup_done
    \/ \E dirty \in BOOLEAN : sim_unlock(dirty)
    \/ sim_session_lock
    \/ sim_disconnect
    \/ sim_disconnect_done
    \/ \E more \in BOOLEAN : sim_session_unlock(more)

SpecLocks == InitLocks /\ [][NextLocks]_vars

\* The lock thread t is about to take, "none" when it is not about to take one.
WaitsFor(t) ==
    CASE t = "accept" /\ locks.pc.accept = "lock" -> "session"
      [] t = "net" /\ locks.pc.net = "lock" -> "session"
      [] t = "net" /\ locks.pc.net \in {"want_world", "save"} -> "world"
      [] t = "sim" /\ locks.pc.sim = "want_world" -> "world"
      [] t = "sim" /\ locks.pc.sim = "want_session" -> "session"
      [] OTHER -> "none"

LockOf(name) == IF name = "session" THEN locks.session ELSE locks.world

\* Thread t waits for a lock that thread u holds.
WaitsOn(t, u) == WaitsFor(t) # "none" /\ t # u /\ LockOf(WaitsFor(t)).owner = u

\* C38: the threads never deadlock on the session lock and the world lock:
\* no two threads wait for each other, and no thread waits for the session
\* lock while it holds the world lock, the opposite of the network thread's
\* order.
C38_NoLockOrderInversion ==
    /\ \A t, u \in LockThreads : ~(WaitsOn(t, u) /\ WaitsOn(u, t))
    /\ \A t \in LockThreads : ~(locks.world.owner = t /\ WaitsFor(t) = "session")

\* The network thread, inside receive_from_clients, waits for the world lock
\* while the tick holds it, and the accept thread waits for the session lock.
C38_Witness ==
    /\ locks.session.owner = "net"
    /\ WaitsOn("net", "sim")
    /\ WaitsOn("accept", "net")

-----------------------------------------------------------------------------
(* The dirty set of a tick (SpecDirty): the machines of SpecSim, with a     *)
(* session that subscribes to their chunk.                                  *)

MaxDirtyEntityId == 3
MaxDirtyTick == 6
DirtyBuilds ==
    ({"MINER"} \X {0})
    \cup ({"INSERTER", "CONVEYOR"} \X {1})
    \cup ({"CHEST", "CONVEYOR", "FURNACE", "ASSEMBLER"} \X {2})

InitDirty == InitServer(SmallCatalog)

NextDirty ==
    \/ next_client_id < 1 /\ accept_connections
    \/ ~Authenticated(1) /\ handle_auth(1, "a")
    \/ /\ Authenticated(1)
       /\ <<0, 0>> \notin clients[1].subscribed_chunks
       /\ handle_chunk_request(1, 0, 0)
    \/ \E b \in DirtyBuilds :
          next_entity_id <= MaxDirtyEntityId
          /\ handle_player_action_build(1, b[1], b[2], 0, "EAST")
    \/ tick < MaxDirtyTick /\ world_loop

SpecDirty == InitDirty /\ [][NextDirty]_vars


\* The buffers of an entity and the item it holds.
Buffers(e) == <<e.data.items, e.data.input, e.data.output, e.data.held_item>>

\* Session c is sent an ENTITY_UPDATE with entity e in this step.
IsSentUpdate(c, e) ==
    \E i \in 1..Len(sent') : sent'[i] = Msg(c, "ENTITY_UPDATE", e)

\* What the update of entity r in world w marks dirty, and the entities
\* whose buffers or held item it changes.
MarkedBy(w, r) == update_entity([w EXCEPT !.dirty_entities = {}], r).dirty_entities
ChangedBy(w, r, w2) ==
    {id \in DOMAIN w.entities : Buffers(w2.entities[id]) # Buffers(w.entities[id])}

-----------------------------------------------------------------------------
(* The inserter's hand (SpecHand): with the default catalogue a chest at     *)
(* (0, 0), an inserter at (1, 0) facing east and a chest at (2, 0); the      *)
(* session puts its three iron_ore into the first chest whenever it likes,   *)
(* may destroy the second chest, and the world ticks.                        *)

MaxHandTick == 64
HandCounts == {1, 2, 3}

InitHand == InitLine(SmeltTiles, add_item(EmptyInventory, "iron_ore", 3).slots)

NextHand ==
    \/ next_entity_id = 1 /\ handle_player_action_build(1, "CHEST", 0, 0, "NORTH")
    \/ next_entity_id = 2 /\ handle_player_action_build(1, "INSERTER", 1, 0, "EAST")
    \/ next_entity_id = 3 /\ handle_player_action_build(1, "CHEST", 2, 0, "NORTH")
    \/ \E n \in HandCounts :
          /\ next_entity_id = 4
          /\ count_item(players[1].inventory, "iron_ore") > 0
          /\ handle_inventory_action_transfer_to(1, 1, "iron_ore", n)
    \/ next_entity_id = 4 /\ 3 \in DOMAIN entities /\ handle_player_action_destroy(1, 3)
    \/ next_entity_id = 4 /\ tick < MaxHandTick /\ world_loop

SpecHand == InitHand /\ [][NextHand]_vars

\* ceil(1 / animation_speed), with progress counted in hundredths.
AnimationTicks ==
    (FULL_PROGRESS + Cfg("INSERTER").animation_speed - 1) \div Cfg("INSERTER").animation_speed

Inserters == {id \in DOMAIN entities : entities[id].entity_type = "INSERTER"}

\* The hand of an inserter: what it holds, how far it has swung, its cooldown.
Hand(d) == <<d.held_item, d.progress, d.cooldown>>

\* What a step does to the inserter with data d, which has data d2 after it.
HandStep(id, d, d2) ==
    LET speed == Cfg("INSERTER").animation_speed
    IN /\ d.held_item # NoItem =>
             \* progress counts the ticks the item has been held
             /\ d.progress % speed = 0
             /\ d.progress \div speed < AnimationTicks
       /\ last'.op # "tick" => Hand(d2) = Hand(d)
       /\ (last'.op = "tick" /\ d.held_item # NoItem) =>
             \/ /\ d2.held_item = NoItem
                /\ d2.progress = 0
                /\ d2.cooldown = Cfg("INSERTER").cooldown
             \/ /\ d2.held_item = d.held_item
                /\ d2.progress = d.progress + speed
                /\ d2.progress \div speed < AnimationTicks
       /\ (last'.op = "tick" /\ d.held_item = NoItem /\ d.cooldown > 0) =>
             /\ d2.held_item = NoItem
             /\ d2.cooldown = d.cooldown - 1
       /\ (d.held_item = NoItem /\ d2.held_item # NoItem) =>
             /\ d.cooldown = 0
             /\ d2.progress = 0
             /\ last'.op = "tick"

\* The items in the buffers of entity e.
Stock(e) == Len(e.data.items) + Len(e.data.input) + Len(e.data.output)

\* The update of the empty-handed inserter r in world w, which gives w2: when
\* it fills the hand, the source has exactly one item less.
PickUp(w, r, w2) ==
    LET source == Neighbour(w, Obj(w, r), -1)
    IN (Obj(w, r).data.held_item = NoItem /\ Obj(w2, r).data.held_item # NoItem)
          => /\ source # 0
             /\ Stock(w2.entities[source]) = Stock(w.entities[source]) - 1

\* C40: an inserter holds one item at most (a pick-up takes exactly the first
\* item of the source); a held item is released, delivered or returned, by
\* the tick that is ceil(1 / animation_speed) ticks after the pick-up, with
\* progress back at 0 and the cooldown set; and while the cooldown is above 0
\* each tick only lowers it by one, so that nothing is picked up in the
\* `cooldown` ticks that follow a release.
C40_InserterCycle ==
    [][/\ \A id \in Inserters :
             id \in DOMAIN entities' => HandStep(id, entities[id].data, entities'[id].data)
       /\ \A i \in 1..Len(TickRefs) :
             Obj(WorldBefore(i), TickRefs[i]).entity_type = "INSERTER"
                => PickUp(WorldBefore(i), TickRefs[i], update_entity(WorldBefore(i), TickRefs[i]))]_vars

\* The inserter picks up its second item in tick 42: the first was picked up
\* in tick 1, delivered in tick 21, and 20 ticks of cooldown followed.
C40_Witness ==
    /\ tick = 42
    /\ last.op = "tick"
    /\ {2, 3} \subseteq DOMAIN entities
    /\ entities[2].data.held_item = Item("iron_ore")
    /\ entities[2].data.progress = 0
    /\ Len(entities[3].data.items) = 1

=============================================================================
